---- MODULE Spec2Model ----
(***************************************************************************)
(* A model of the mscz-concatenator merge engine:                          *)
(*   src/mscore/__init__.py   class Score (find_duplicate_eids,            *)
(*                            rename_duplicate_eids, concatenate_score,    *)
(*                            save, copy_pictures_to_target)               *)
(*   src/ms_concatenate.py    validate_and_skip_files, concatenate         *)
(*                                                                         *)
(* A score tree is abstracted to what the merge reads and writes: the      *)
(* Part names, the Staff elements in document order with their children,   *)
(* the eid texts, the SystemLocks region and the Pictures/ entries of the  *)
(* container.  One action of the model is one step of concatenate(); the   *)
(* Container actions are the methods of a Score called in any order.       *)
(***************************************************************************)
EXTENDS Integers, Sequences, FiniteSets, TLC

(***************************************************************************)
(* Bounds of the model.                                                    *)
(***************************************************************************)
MaxSources == 3      \* source paths handed to concatenate (1..MaxSources)
MaxStaffs  == 2      \* Staff elements per document, and staff ids 1..MaxStaffs
MaxKids    == 2      \* children of one Staff element in a file
NumEids    == 2      \* eid texts that occur in files and that os.urandom can yield
NumNames   == 2      \* file names besides the output's (names 0..NumNames)
MaxParts   == 2      \* Part elements of a file
MaxEntries == 2      \* entries of a container besides the score
MaxLocks == 2                    \* SystemLock entries of a file

(***************************************************************************)
(* Values.                                                                 *)
(***************************************************************************)
NoEid == 0                       \* an absent or empty <eid> text
EidSpace == 1..NumEids
StaffIds == 1..MaxStaffs
FRAME_TAGS == {"VBox", "HBox", "TBox", "FBox"}
TITLE_TAGS == {"VBox", "TBox"}
OutFile == 0                     \* a file name that is none of the sources

SeqsUpTo(S, n) == UNION {[1..k -> S] : k \in 0..n}
SeqsFromTo(S, m, n) == UNION {[1..k -> S] : k \in m..n}
Range(s) == {s[i] : i \in DOMAIN s}

(***************************************************************************)
(* Score.__init__: the tree of a file becomes a Score.  A file holds       *)
(* [parts, staffs, locks, zip_entries]: the score entry in three parts and *)
(* the other entries of the zip; parsing keeps them and gives each         *)
(* child element of a Staff its identity org = <<file, staff, child>> and  *)
(* no layout break yet.  part names go into a dict keyed by name, so a     *)
(* repeated name is kept once, at its first position.                      *)
(***************************************************************************)
RECURSIVE DictKeys(_)
DictKeys(names) ==
    IF names = <<>> THEN <<>>
    ELSE LET init == DictKeys(SubSeq(names, 1, Len(names) - 1))
             last == names[Len(names)]
         IN  IF last \in Range(init) THEN init ELSE Append(init, last)

ParseKid(raw, d, s, k) ==
    [tag |-> raw.tag, title |-> raw.title, eid |-> raw.eid, repeat |-> raw.repeat,
     org |-> <<d, s, k>>, brk |-> <<>>]

ParseScore(file, d) ==
    [basename |-> d,
     parts    |-> DictKeys(file.parts),
     staffs   |-> [s \in DOMAIN file.staffs |->
                     [id   |-> file.staffs[s].id,
                      kids |-> [k \in DOMAIN file.staffs[s].kids |->
                                  ParseKid(file.staffs[s].kids[k], d, s, k)]]],
     locks    |-> file.locks,
     zip_entries |-> file.zip_entries]

\* Score.part_names
part_names(score) == score.parts

(***************************************************************************)
(* Identity deduplication.                                                 *)
(***************************************************************************)
AllKids(score) == UNION {Range(score.staffs[s].kids) : s \in DOMAIN score.staffs}

\* the texts of the <eid> elements of a tree (root.findall(".//eid"), empty texts dropped)
ScoreEids(score) == {k.eid : k \in AllKids(score)} \ {NoEid}

\* find_duplicate_eids with a slip in it: every eid of the target is reported.
find_duplicate_eids_OfTarget(target_score, source_score) == ScoreEids(target_score)

\* Score.find_duplicate_eids
find_duplicate_eids(target_score, source_score) ==
    ScoreEids(target_score) \cap ScoreEids(source_score)

RenameEid(eid, eid_mapping) ==
    IF eid \in DOMAIN eid_mapping THEN eid_mapping[eid] ELSE eid

RenameKids(kids, eid_mapping) ==
    [k \in DOMAIN kids |-> [kids[k] EXCEPT !.eid = RenameEid(@, eid_mapping)]]

RenameLocks(locks, eid_mapping) ==
    [present |-> locks.present,
     entries |-> [i \in DOMAIN locks.entries |->
                    [startMeasure |-> RenameEid(locks.entries[i].startMeasure, eid_mapping),
                     endMeasure   |-> RenameEid(locks.entries[i].endMeasure, eid_mapping)]]]

\* Score.rename_duplicate_eids, given the identifiers generate_new_eid returned:
\* the <eid> texts of the source and its SystemLock references are rewritten.
rename_duplicate_eids(source_score, eid_mapping) ==
    [source_score EXCEPT
        !.staffs = [s \in DOMAIN @ |-> [@[s] EXCEPT !.kids = RenameKids(@, eid_mapping)]],
        !.locks  = RenameLocks(@, eid_mapping)]

\* generate_new_eid draws 16 random bytes: any identifier can come out, for
\* each duplicate independently.
EidMappings(duplicate_eids) == [duplicate_eids -> EidSpace]

(***************************************************************************)
(* generate_new_eid.  A 64-bit value is held as its eight bytes, the most  *)
(* significant first, and divided by 64 byte by byte.                      *)
(***************************************************************************)
NumBytes == 8                    \* bytes of one of the two values
chars ==
    <<"A", "B", "C", "D", "E", "F", "G", "H", "I", "J", "K", "L", "M", "N", "O", "P",
      "Q", "R", "S", "T", "U", "V", "W", "X", "Y", "Z", "a", "b", "c", "d", "e", "f",
      "g", "h", "i", "j", "k", "l", "m", "n", "o", "p", "q", "r", "s", "t", "u", "v",
      "w", "x", "y", "z", "0", "1", "2", "3", "4", "5", "6", "7", "8", "9", "+", "/">>

Reverse(seq) == [k \in DOMAIN seq |-> seq[Len(seq) + 1 - k]]

\* int.from_bytes(bytes, byteorder='little'), as bytes most significant first
FromBytesLittle(bytes) == Reverse(bytes)

IsZero(n) == \A k \in DOMAIN n : n[k] = 0

RECURSIVE DivMod64(_, _)
\* n // 64 and n % 64, the bytes of n taken one by one with the carry
DivMod64(n, carry) ==
    IF n = <<>> THEN [quotient |-> <<>>, remainder |-> carry]
    ELSE LET cur  == carry * 256 + Head(n)
             rest == DivMod64(Tail(n), cur % 64)
         IN  [quotient |-> <<cur \div 64>> \o rest.quotient, remainder |-> rest.remainder]

RECURSIVE Base64Loop(_, _)
\* while n > 0: result = chars[n % 64] + result; n = n // 64
Base64Loop(n, result) ==
    IF IsZero(n) THEN result
    ELSE LET d == DivMod64(n, 0)
         IN  Base64Loop(d.quotient, <<chars[d.remainder + 1]>> \o result)

\* to_base64 with a slip in it: the digits come out least significant first.
to_base64_LeastFirst(n) ==
    IF IsZero(n) THEN <<chars[1]>> ELSE Reverse(Base64Loop(n, <<>>))

\* to_base64: the string as the sequence of its characters
to_base64(n) ==
    IF IsZero(n) THEN <<chars[1]>> ELSE Base64Loop(n, <<>>)

\* generate_new_eid, for the 16 bytes os.urandom returned
generate_new_eid(random_bytes) ==
    LET int1 == FromBytesLittle(SubSeq(random_bytes, 1, NumBytes))
        int2 == FromBytesLittle(SubSeq(random_bytes, NumBytes + 1, 2 * NumBytes))
    IN  to_base64(int1) \o <<"_">> \o to_base64(int2)

(***************************************************************************)
(* Score.concatenate_score, after the renaming.                            *)
(***************************************************************************)
RECURSIVE CopyElements(_, _, _, _)
\* the loop over src_elements of one paired staff: what is appended
CopyElements(src_elements, first_frame, copy_frames, copy_title_frames) ==
    IF src_elements = <<>> THEN <<>>
    ELSE LET elem == Head(src_elements)
             rest == Tail(src_elements)
         IN  IF elem.tag = "Measure"
             THEN <<elem>> \o CopyElements(rest, first_frame, copy_frames, copy_title_frames)
             ELSE IF copy_frames /\ elem.tag \in FRAME_TAGS
             THEN IF first_frame /\ ~copy_title_frames
                     /\ elem.tag \in TITLE_TAGS /\ elem.title
                  THEN CopyElements(rest, FALSE, copy_frames, copy_title_frames)
                  ELSE <<elem>> \o CopyElements(rest, FALSE, copy_frames, copy_title_frames)
             ELSE CopyElements(rest, first_frame, copy_frames, copy_title_frames)

\* Variants of AppendToStaff with a slip in them: the copies put in front of the
\* staff's children, the copies appended last to first, the first copy lost.
AppendToStaff_InFront(tgt_kids, copies) == copies \o tgt_kids
AppendToStaff_Reversed(tgt_kids, copies) ==
    tgt_kids \o [k \in DOMAIN copies |-> copies[Len(copies) + 1 - k]]
AppendToStaff_SkipFirst(tgt_kids, copies) ==
    IF copies = <<>> THEN tgt_kids ELSE tgt_kids \o Tail(copies)

\* tgt_staff.append(elem_copy), for each copy in turn
AppendToStaff(tgt_kids, copies) == tgt_kids \o copies

\* MergeStaffs with a slip in it: frames are copied whatever copy_frames is.
MergeStaffs_FramesAlways(tgt_staffs, src_staffs, copy_frames, copy_title_frames) ==
    [i \in DOMAIN tgt_staffs |->
        IF tgt_staffs[i].id # src_staffs[i].id
        THEN tgt_staffs[i]
        ELSE [tgt_staffs[i] EXCEPT !.kids =
                AppendToStaff(@, CopyElements(src_staffs[i].kids, TRUE,
                                              TRUE, copy_title_frames))]]

\* zip(tgt_staffs, src_staffs): the staffs are paired by position, and a pair
\* whose ids differ is passed over.
MergeStaffs(tgt_staffs, src_staffs, copy_frames, copy_title_frames) ==
    [i \in DOMAIN tgt_staffs |->
        IF tgt_staffs[i].id # src_staffs[i].id
        THEN tgt_staffs[i]
        ELSE [tgt_staffs[i] EXCEPT !.kids =
                AppendToStaff(@, CopyElements(src_staffs[i].kids, TRUE,
                                              copy_frames, copy_title_frames))]]

\* MergeLocks with a slip in it: an entry the target already holds is not
\* appended again.
MergeLocks_NoDuplicates(tgt_locks, src_locks, copy_system_locks) ==
    IF copy_system_locks /\ src_locks.present
    THEN IF ~tgt_locks.present
         THEN src_locks
         ELSE [present |-> TRUE,
               entries |-> tgt_locks.entries \o
                           SelectSeq(src_locks.entries,
                                     LAMBDA e : \A k \in DOMAIN tgt_locks.entries :
                                                    tgt_locks.entries[k] # e)]
    ELSE tgt_locks

\* lines 459-470: the SystemLocks region of the source, copied whole or entry
\* by entry
MergeLocks(tgt_locks, src_locks, copy_system_locks) ==
    IF copy_system_locks /\ src_locks.present
    THEN IF ~tgt_locks.present
         THEN src_locks
         ELSE [present |-> TRUE, entries |-> tgt_locks.entries \o src_locks.entries]
    ELSE tgt_locks

\* The target after concatenate_score(source), source already renamed.
concatenate_score(target, source, copy_frames, copy_title_frames, copy_system_locks) ==
    IF Len(target.staffs) # Len(source.staffs)
    THEN target
    ELSE [target EXCEPT
            !.staffs = MergeStaffs(@, source.staffs, copy_frames, copy_title_frames),
            !.locks  = MergeLocks(@, source.locks, copy_system_locks)]

(***************************************************************************)
(* Score.add_layout_break and Score.has_repeats_in_last_measure.  The      *)
(* methods are called by concatenate but are not in the sources at hand:   *)
(* a marker of the break type, with the options it was given, is appended  *)
(* inside the last measure of the target, taken as the last Measure child  *)
(* of the first Staff element that has one; a target without measures is   *)
(* left as it is, and has no repeat in its last measure.                   *)
(***************************************************************************)
MeasureIdx(kids) == {k \in DOMAIN kids : kids[k].tag = "Measure"}
StaffsWithMeasure(score) == {s \in DOMAIN score.staffs : MeasureIdx(score.staffs[s].kids) # {}}
Max(S) == CHOOSE x \in S : \A y \in S : y <= x
Min(S) == CHOOSE x \in S : \A y \in S : x <= y

\* break_options=None
NoBreakOptions == [given |-> FALSE, pause |-> 0, auto_detect_repeats |-> FALSE]

add_layout_break(score, break_type, break_options) ==
    IF StaffsWithMeasure(score) = {} THEN score
    ELSE LET s == Min(StaffsWithMeasure(score))
             k == Max(MeasureIdx(score.staffs[s].kids))
         IN  [score EXCEPT !.staffs[s].kids[k].brk =
                 Append(@, [type |-> break_type, options |-> break_options])]

has_repeats_in_last_measure(score) ==
    /\ StaffsWithMeasure(score) # {}
    /\ LET s == Min(StaffsWithMeasure(score))
       IN  score.staffs[s].kids[Max(MeasureIdx(score.staffs[s].kids))].repeat

\* BreakTypes with a slip in it: of several types only the first is taken.
BreakTypes_FirstOnly(break_type) ==
    CASE break_type = "none"         -> <<"none">>
      [] break_type = "line"         -> <<"line">>
      [] break_type = "page"         -> <<"page">>
      [] break_type = "section"      -> <<"section">>
      [] break_type = "page,section" -> <<"page">>
      [] break_type = "line,page"    -> <<"line">>
      [] break_type = "line,section" -> <<"line">>
      [] break_type = "line,page,section" -> <<"line">>

\* break_type.split(',') of the values the callers pass
BreakTypes(break_type) ==
    CASE break_type = "none"         -> <<"none">>
      [] break_type = "line"         -> <<"line">>
      [] break_type = "page"         -> <<"page">>
      [] break_type = "section"      -> <<"section">>
      [] break_type = "page,section" -> <<"page", "section">>
      [] break_type = "line,page"    -> <<"line", "page">>
      [] break_type = "line,section" -> <<"line", "section">>
      [] break_type = "line,page,section" -> <<"line", "page", "section">>

\* line 294: the options of a break at the end of the first file
FirstBreakOptions(bt, break_options) ==
    IF bt = "section" THEN break_options ELSE NoBreakOptions

\* lines 311-323: the options of a break before a later source
LoopBreakOptions(score, bt, break_options) ==
    IF bt = "section" /\ break_options.given
    THEN IF break_options.auto_detect_repeats /\ has_repeats_in_last_measure(score)
         THEN [break_options EXCEPT !.pause = 0]
         ELSE break_options
    ELSE NoBreakOptions

RECURSIVE AddBreaks(_, _, _, _)
\* for bt in break_types: if bt != "none": _add_layout_break(target, bt, ...),
\* at the end of the first file (lines 291-295) or in the loop (308-325)
AddBreaks(score, break_types, break_options, in_loop) ==
    IF break_types = <<>> THEN score
    ELSE LET bt == Head(break_types)
         IN  AddBreaks(IF bt # "none"
                       THEN add_layout_break(score, bt,
                                IF in_loop THEN LoopBreakOptions(score, bt, break_options)
                                ELSE FirstBreakOptions(bt, break_options))
                       ELSE score,
                       Tail(break_types), break_options, in_loop)

(***************************************************************************)
(* The fuzzy name matcher (mscore.fuzzy.FuzzyName.score) is imported by    *)
(* ms_concatenate.py but is not in the sources at hand.  Scores are in     *)
(* percent.  A name is a stem and a number; IGNORE compares the stems,     *)
(* MATCH gives 0 unless the numbers are equal, PREFER takes a little off   *)
(* when they differ.                                                       *)
(***************************************************************************)
NameStem(name) ==
    CASE name = "Violin 1" -> "violin"
      [] name = "Violin 2" -> "violin"
      [] name = "Viola"    -> "viola"
      [] OTHER             -> ""

NameNumber(name) ==
    CASE name = "Violin 1" -> "1"
      [] name = "Violin 2" -> "2"
      [] OTHER             -> ""

\* "unscorable" stands for a name on which FuzzyName or its score raises
MatcherRaises(target_part, source_part) == "unscorable" \in {target_part, source_part}

StemSimilarity(a, b) == IF NameStem(a) = NameStem(b) THEN 100 ELSE 50

FuzzyScore(target_part, source_part, numbers_strategy) ==
    CASE numbers_strategy = "IGNORE" -> StemSimilarity(target_part, source_part)
      [] numbers_strategy = "MATCH"  ->
            IF NameNumber(target_part) = NameNumber(source_part)
            THEN StemSimilarity(target_part, source_part) ELSE 0
      [] OTHER ->
            IF NameNumber(target_part) = NameNumber(source_part)
            THEN StemSimilarity(target_part, source_part)
            ELSE StemSimilarity(target_part, source_part) - 20

(***************************************************************************)
(* validate_and_skip_files                                                 *)
(***************************************************************************)
\* strategy_map.get(number_strategy.upper(), PREFER)
StrategyConstant(number_strategy) ==
    IF number_strategy \in {"IGNORE", "MATCH", "PREFER"} THEN number_strategy ELSE "PREFER"

\* [part for part in parts if part is not None and part != ""]
CleanParts(parts) == SelectSeq(parts, LAMBDA part : part # "")

\* _fuzzy_instrument_match with a slip in it: one position at or above the
\* threshold is enough.
fuzzy_instrument_match_AnyPosition(target_parts, source_parts, threshold, number_strategy) ==
    /\ Len(target_parts) = Len(source_parts)
    /\ \E k \in DOMAIN target_parts :
          /\ ~MatcherRaises(target_parts[k], source_parts[k])
          /\ FuzzyScore(target_parts[k], source_parts[k], number_strategy) >= threshold

\* _fuzzy_instrument_match: False at the first position whose score is below
\* the threshold or whose scoring raises
fuzzy_instrument_match(target_parts, source_parts, threshold, number_strategy) ==
    /\ Len(target_parts) = Len(source_parts)
    /\ \A k \in DOMAIN target_parts :
          /\ ~MatcherRaises(target_parts[k], source_parts[k])
          /\ FuzzyScore(target_parts[k], source_parts[k], number_strategy) >= threshold

\* SkipReason with a slip in it: the part counts are compared before the
\* source is looked at for parts.
SkipReason_CountFirst(target_parts_clean, src, o) ==
    LET src_parts_clean == CleanParts(part_names(src))
    IN  IF Len(src_parts_clean) # Len(target_parts_clean) THEN "different number of parts"
        ELSE IF src_parts_clean = <<>> THEN "no musical parts"
        ELSE IF o.fuzzy_matching
        THEN IF fuzzy_instrument_match(target_parts_clean, src_parts_clean, o.match_threshold,
                                       StrategyConstant(o.number_strategy))
             THEN "" ELSE "different instrumentation (fuzzy)"
        ELSE IF src_parts_clean = target_parts_clean
             THEN "" ELSE "different instrumentation (exact)"

\* the reason one source is skipped for, "" when it is valid
SkipReason(target_parts_clean, src, o) ==
    LET src_parts_clean == CleanParts(part_names(src))
    IN  IF src_parts_clean = <<>> THEN "no musical parts"
        ELSE IF Len(src_parts_clean) # Len(target_parts_clean) THEN "different number of parts"
        ELSE IF o.fuzzy_matching
        THEN IF fuzzy_instrument_match(target_parts_clean, src_parts_clean, o.match_threshold,
                                       StrategyConstant(o.number_strategy))
             THEN "" ELSE "different instrumentation (fuzzy)"
        ELSE IF src_parts_clean = target_parts_clean
             THEN "" ELSE "different instrumentation (exact)"

RECURSIVE ValidSources(_, _, _)
ValidSources(target_parts_clean, srcs, o) ==
    IF srcs = <<>> THEN <<>>
    ELSE (IF SkipReason(target_parts_clean, Head(srcs), o) = "" THEN <<Head(srcs)>> ELSE <<>>)
         \o ValidSources(target_parts_clean, Tail(srcs), o)

RECURSIVE SkippedFiles(_, _, _)
SkippedFiles(target_parts_clean, srcs, o) ==
    IF srcs = <<>> THEN <<>>
    ELSE (IF SkipReason(target_parts_clean, Head(srcs), o) = "" THEN <<>>
          ELSE <<[file   |-> Head(srcs).basename,
                  reason |-> SkipReason(target_parts_clean, Head(srcs), o)]>>)
         \o SkippedFiles(target_parts_clean, Tail(srcs), o)

\* validate_and_skip_files with a slip in it: the skipped sources are listed
\* but stay among the valid ones.
validate_and_skip_files_KeepsAll(tgt, srcs, o) ==
    [valid_sources |-> srcs,
     skipped_files |-> SkippedFiles(CleanParts(part_names(tgt)), srcs, o)]

validate_and_skip_files(tgt, srcs, o) ==
    [valid_sources |-> ValidSources(CleanParts(part_names(tgt)), srcs, o),
     skipped_files |-> SkippedFiles(CleanParts(part_names(tgt)), srcs, o)]

(***************************************************************************)
(* The state of one run of concatenate().                                  *)
(***************************************************************************)
VARIABLES
    source_paths,        \* the source paths, each [name, ext]
    target_path,         \* the output path
    opts,                \* the keyword arguments of concatenate
    disk,                \* disk[k]: what the file at source_paths[k] holds
    pc,                  \* where concatenate is
    target,              \* the Score opened on the output path
    sources,             \* the Scores still to be merged
    skipped_files,       \* what validate_and_skip_files skipped
    duplicate_warnings,  \* the sources whose eids were renamed
    i,                   \* how many of sources the loop has processed
    progress,            \* the calls of progress_callback, <<current, total>> each
    io,                  \* the file operations done so far, in order
    output,              \* what the output path holds
    pictures_copied,     \* what copy_pictures_to_target returned, call by call
    err,                 \* the exception concatenate ended with
    new_eid,             \* generate_new_eid: the random bytes and the identifier made of them
    gui                  \* ConcatenateGUI: the Tk variables behind the options

vars == <<source_paths, target_path, opts, disk, pc, target, sources, skipped_files,
          duplicate_warnings, i, progress, io, output, pictures_copied, err,
          new_eid, gui>>

\* no call of generate_new_eid yet
NoNewEid == [random_bytes |-> <<>>, eid |-> <<>>]
\* the Tk variables as ConcatenateGUI.__init__ sets them
GuiDefaults ==
    [files |-> <<>>,
     skip_incompatible_var |-> FALSE, fuzzy_matching_var |-> FALSE,
     match_threshold_var |-> 70, number_strategy_var |-> "prefer",
     copy_frames_var |-> TRUE, copy_title_frames_var |-> TRUE,
     copy_system_locks_var |-> TRUE, copy_pictures_var |-> TRUE,
     break_system_var |-> FALSE, break_page_var |-> FALSE, break_section_var |-> FALSE,
     section_pause_var |-> 3, has_repeats_var |-> FALSE]
NoLocks == [present |-> FALSE, entries |-> <<>>]
NoScore == [basename |-> 0, parts |-> <<>>, staffs |-> <<>>, locks |-> NoLocks, zip_entries |-> {}]
NoError == [kind |-> "", file |-> 0, reason |-> ""]
NoOutput == [written |-> FALSE, staffs |-> <<>>, locks |-> NoLocks, zip_entries |-> {}]

\* the operations of io that write to the output path
OutputWrites == SelectSeq(io, LAMBDA op : op \in {"copy", "save", "pictures"})

\* src.lower().endswith(".mscz")
EndsWithMscz(path) == path.ext \in {"mscz", "MSCZ"}

\* the checks of concatenate before any file is touched: the error raised, "" if none
UsageError ==
    IF Len(source_paths) < 2 THEN "at least two sources"
    ELSE IF \E k \in DOMAIN source_paths : ~EndsWithMscz(source_paths[k])
    THEN "unsupported file type"
    ELSE IF ~EndsWithMscz(target_path) THEN "target must be .mscz"
    ELSE IF target_path \in Range(source_paths) THEN "target is a source"
    ELSE IF \E a, b \in DOMAIN source_paths : a < b /\ source_paths[a] = source_paths[b]
    THEN "duplicate sources"
    ELSE ""

Raise(kind, file, reason) ==
    /\ pc' = "error"
    /\ err' = [kind |-> kind, file |-> file, reason |-> reason]

\* lines 210-243: the usage checks, then the progress callback for the base file
CheckPreconditions ==
    /\ pc = "start"
    /\ \/ /\ UsageError # ""
          /\ Raise("usage", 0, UsageError)
          /\ UNCHANGED progress
       \/ /\ UsageError = ""
          /\ progress' = Append(progress, <<1, Len(source_paths)>>)
          /\ pc' = "copy"
          /\ UNCHANGED err
    /\ UNCHANGED <<source_paths, target_path, opts, disk, target, sources, skipped_files,
                   duplicate_warnings, i, io, output,
                   pictures_copied, new_eid, gui>>

\* line 247: copy(source_paths[0], target_path)
CopyBase ==
    /\ pc = "copy"
    /\ \/ /\ disk[1].state = "missing"
          /\ Raise("io", 1, "cannot read")
          /\ UNCHANGED <<io, output>>
       \/ /\ disk[1].state # "missing"
          /\ io' = Append(io, "copy")
          /\ output' = [written |-> TRUE, staffs |-> disk[1].staffs,
                        locks |-> disk[1].locks, zip_entries |-> disk[1].zip_entries]
          /\ pc' = "load_target"
          /\ UNCHANGED err
    /\ UNCHANGED <<source_paths, target_path, opts, disk, target, sources, skipped_files,
                   duplicate_warnings, i, progress,
                   pictures_copied, new_eid, gui>>

\* Score.__init__: the error it raises for a file name and its content, "" if none.
\* splitext(filename)[-1] is compared with '.mscz' as written.
ScoreInitError(path, file) ==
    IF path.ext # "mscz" THEN "unsupported file extension"
    ELSE IF file.state = "missing" THEN "cannot read"
    ELSE IF file.state = "invalid" THEN "not a score container"
    ELSE ""

ScoreInitKind(reason) ==
    IF reason = "unsupported file extension" THEN "usage" ELSE "io"

\* line 248: target = Score(target_path)
LoadTarget ==
    /\ pc = "load_target"
    /\ \/ /\ ScoreInitError(target_path, disk[1]) # ""
          /\ Raise(ScoreInitKind(ScoreInitError(target_path, disk[1])), 0,
                   ScoreInitError(target_path, disk[1]))
          /\ UNCHANGED <<target, io>>
       \/ /\ ScoreInitError(target_path, disk[1]) = ""
          /\ target' = ParseScore(disk[1], 1)
          /\ io' = Append(io, "read target")
          /\ pc' = "load_sources"
          /\ UNCHANGED err
    /\ UNCHANGED <<source_paths, target_path, opts, disk, sources, skipped_files,
                   duplicate_warnings, i, progress, output,
                   pictures_copied, new_eid, gui>>

\* line 252: sources = [Score(src) for src in source_paths[1:]]
FailingSources ==
    {k \in 2..Len(source_paths) : ScoreInitError(source_paths[k], disk[k]) # ""}

LoadSources ==
    /\ pc = "load_sources"
    /\ \/ /\ FailingSources # {}
          /\ LET k == Min(FailingSources)
             IN  Raise(ScoreInitKind(ScoreInitError(source_paths[k], disk[k])), k,
                       ScoreInitError(source_paths[k], disk[k]))
          /\ UNCHANGED <<sources, io>>
       \/ /\ FailingSources = {}
          /\ sources' = [k \in 1..(Len(source_paths) - 1) |-> ParseScore(disk[k + 1], k + 1)]
          /\ io' = Append(io, "read sources")
          /\ pc' = "validate"
          /\ UNCHANGED err
    /\ UNCHANGED <<source_paths, target_path, opts, disk, target, skipped_files,
                   duplicate_warnings, i, progress, output,
                   pictures_copied, new_eid, gui>>

\* Validate with a slip in it: the strict policy drops the incompatible sources
\* as the skip policy does, and goes on.
Validate_Lenient ==
    /\ pc = "validate"
    /\ LET v == validate_and_skip_files(target, sources, opts)
       IN  /\ skipped_files' = v.skipped_files
           /\ sources' = v.valid_sources
    /\ pc' = "first_breaks"
    /\ UNCHANGED <<source_paths, target_path, opts, disk, target, duplicate_warnings, i,
                   progress, io, output, err,
                   pictures_copied, new_eid, gui>>

\* lines 257-283: the compatibility check under the skip or the strict policy
Validate ==
    /\ pc = "validate"
    /\ LET v == validate_and_skip_files(target, sources, opts)
       IN  /\ skipped_files' = v.skipped_files
           /\ \/ /\ ~opts.skip_incompatible
                 /\ v.skipped_files # <<>>
                 /\ Raise("incompatible", v.skipped_files[1].file, v.skipped_files[1].reason)
                 /\ UNCHANGED sources
              \/ /\ opts.skip_incompatible \/ v.skipped_files = <<>>
                 /\ sources' = v.valid_sources
                 /\ pc' = "first_breaks"
                 /\ UNCHANGED err
    /\ UNCHANGED <<source_paths, target_path, opts, disk, target, duplicate_warnings, i,
                   progress, io, output,
                   pictures_copied, new_eid, gui>>

\* lines 286-295: the layout breaks at the end of the base document
AddFirstBreaks ==
    /\ pc = "first_breaks"
    /\ target' = IF opts.break_type # "none" /\ Len(sources) >= 1
                 THEN AddBreaks(target, BreakTypes(opts.break_type),
                                opts.break_options, FALSE)
                 ELSE target
    /\ pc' = "merge"
    /\ UNCHANGED <<source_paths, target_path, opts, disk, sources, skipped_files,
                   duplicate_warnings, i, progress, io, output, err,
                   pictures_copied, new_eid, gui>>

\* lines 299-347: one turn of the loop over the accepted sources: the layout
\* breaks before every source but the first, Score.concatenate_score (the eid
\* renaming first), the duplicate warning and the progress callback
MergeSource ==
    /\ pc = "merge"
    /\ i < Len(sources)
    /\ LET source         == sources[i + 1]
           broken         == IF opts.break_type # "none" /\ i > 0
                             THEN AddBreaks(target, BreakTypes(opts.break_type),
                                            opts.break_options, TRUE)
                             ELSE target
           duplicate_eids == find_duplicate_eids(broken, source)
       IN  \E eid_mapping \in EidMappings(duplicate_eids) :
             /\ target' = concatenate_score(broken,
                              rename_duplicate_eids(source, eid_mapping),
                              opts.copy_frames, opts.copy_title_frames,
                              opts.copy_system_locks)
             /\ duplicate_warnings' = IF duplicate_eids # {}
                                      THEN Append(duplicate_warnings, source.basename)
                                      ELSE duplicate_warnings
    /\ progress' = Append(progress, <<i + 2, Len(source_paths)>>)
    /\ i' = i + 1
    /\ UNCHANGED <<source_paths, target_path, opts, disk, pc, sources, skipped_files,
                   io, output, err,
                   pictures_copied, new_eid, gui>>

\* line 351: target.save()
Save ==
    /\ pc = "merge"
    /\ i = Len(sources)
    /\ io' = Append(io, "save")
    /\ output' = [written |-> TRUE, staffs |-> target.staffs, locks |-> target.locks,
                  zip_entries |-> target.zip_entries]
    /\ pc' = "pictures"
    /\ UNCHANGED <<source_paths, target_path, opts, disk, target, sources, skipped_files,
                   duplicate_warnings, i, progress, err,
                   pictures_copied, new_eid, gui>>

\* An entry of a zip is [name, data]; the name is the path split at "/", so
\* that "Pictures/" is <<"Pictures", "">>.
EntryNames(zip_entries) == {entry.name : entry \in zip_entries}
StartsWithPictures(name) == Len(name) >= 2 /\ name[1] = "Pictures"
EndsWithSlash(name) == name[Len(name)] = ""

\* line 359: picture_files
picture_files(zip_entries) ==
    {entry \in zip_entries :
        StartsWithPictures(entry.name) /\ ~EndsWithSlash(entry.name)}

\* copy_pictures_to_target with a slip in it: a picture already in the target
\* is written again from the source.
copy_pictures_to_target_Overwrites(target_zip, source_zip) ==
    LET written == picture_files(source_zip)
    IN  [zip_entries |-> {entry \in target_zip : entry.name \notin EntryNames(written)}
                            \cup written,
         pictures_copied |-> Cardinality(written)]

\* Score.copy_pictures_to_target (lines 348-393) on a target file that exists:
\* the pictures of the source zip whose path is not in the target zip are
\* written to it, and their number is returned.
copy_pictures_to_target(target_zip, source_zip) ==
    LET written == {entry \in picture_files(source_zip) :
                       entry.name \notin EntryNames(target_zip)}
    IN  [zip_entries |-> target_zip \cup written,
         pictures_copied |-> Cardinality(written)]

\* lines 357-361: the loop over the sources, up to source k
RECURSIVE PicturesLoop(_, _)
PicturesLoop(target_zip, k) ==
    IF k = 0 THEN [zip_entries |-> target_zip, returned |-> <<>>]
    ELSE LET before == PicturesLoop(target_zip, k - 1)
             call == copy_pictures_to_target(before.zip_entries, sources[k].zip_entries)
         IN  [zip_entries |-> call.zip_entries,
              returned |-> Append(before.returned, call.pictures_copied)]

\* lines 353-374: the pictures, then the return
CopyPictures ==
    /\ pc = "pictures"
    /\ IF opts.copy_pictures
       THEN LET loop == PicturesLoop(output.zip_entries, Len(sources))
            IN  /\ io' = IF loop.zip_entries # output.zip_entries
                         THEN Append(io, "pictures") ELSE io
                /\ output' = [output EXCEPT !.zip_entries = loop.zip_entries]
                /\ pictures_copied' = loop.returned
       ELSE UNCHANGED <<io, output, pictures_copied>>
    /\ pc' = "done"
    /\ UNCHANGED <<source_paths, target_path, opts, disk, target, sources, skipped_files,
                   duplicate_warnings, i, progress, err, new_eid, gui>>

Next ==
    \/ CheckPreconditions
    \/ CopyBase
    \/ LoadTarget
    \/ LoadSources
    \/ Validate
    \/ AddFirstBreaks
    \/ MergeSource
    \/ Save
    \/ CopyPictures

(***************************************************************************)
(* A Score used on its own: opened on a file, then concatenate_score,      *)
(* save and copy_pictures_to_target in any order.  target is the Score,    *)
(* output the file it was opened on, sources[1] the other Score.           *)
(***************************************************************************)
\* target.concatenate_score(source): the tree is changed, the file is not
ContainerConcatenate ==
    /\ pc = "container"
    /\ i < Len(sources)
    /\ target' = concatenate_score(target, sources[i + 1], TRUE, TRUE, TRUE)
    /\ i' = i + 1
    /\ UNCHANGED <<source_paths, target_path, opts, disk, pc, sources, skipped_files,
                   duplicate_warnings, progress, io, output, pictures_copied, err, new_eid, gui>>

\* target.save() (lines 222-231): the file is written anew from the tree and
\* the entries read when the Score was opened
ContainerSave ==
    /\ pc = "container"
    /\ io' = <<"save">>
    /\ output' = [written |-> TRUE, staffs |-> target.staffs, locks |-> target.locks,
                  zip_entries |-> target.zip_entries]
    /\ UNCHANGED <<source_paths, target_path, opts, disk, pc, target, sources,
                   skipped_files, duplicate_warnings, i, progress, pictures_copied, err, new_eid, gui>>

\* target.copy_pictures_to_target(source, target.filename): the pictures are
\* written to the file, not to the entries of the Score
ContainerCopyPictures ==
    /\ pc = "container"
    /\ \E k \in DOMAIN sources :
          LET call == copy_pictures_to_target(output.zip_entries, sources[k].zip_entries)
          IN  /\ output' = [output EXCEPT !.zip_entries = call.zip_entries]
              /\ pictures_copied' = <<call.pictures_copied>>
    /\ io' = <<"pictures">>
    /\ UNCHANGED <<source_paths, target_path, opts, disk, pc, target, sources,
                   skipped_files, duplicate_warnings, i, progress, err, new_eid, gui>>

NextContainer ==
    \/ ContainerConcatenate
    \/ ContainerSave
    \/ ContainerCopyPictures

(***************************************************************************)
(* Score.save_as.  Here target is a Score with its filename and its ext,   *)
(* output is what the last save wrote and where, and err is the exception  *)
(* of the last call, with the file name the call was given.                *)
(***************************************************************************)
\* Score.save (lines 222-231) under the ext the Score has: the tree alone for
\* mscx, the entries for mscz, nothing for any other ext
SaveScore(score) ==
    IF score.ext = "mscx"
    THEN [written |-> TRUE, filename |-> score.filename, form |-> "mscx",
          staffs |-> score.staffs, locks |-> score.locks, zip_entries |-> {}]
    ELSE IF score.ext = "mscz"
    THEN [written |-> TRUE, filename |-> score.filename, form |-> "mscz",
          staffs |-> score.staffs, locks |-> score.locks,
          zip_entries |-> score.zip_entries]
    ELSE output

\* Score.save_as(filename) (lines 214-220)
SaveAs(filename) ==
    /\ pc = "score"
    /\ \/ /\ filename.ext = "mscz" /\ target.ext = "mscx"
          /\ err' = [kind |-> "runtime", file |-> filename,
                     reason |-> "cannot save score imported from mscx to mscz"]
          /\ UNCHANGED <<target, output>>
       \/ /\ ~(filename.ext = "mscz" /\ target.ext = "mscx")
          /\ target' = [target EXCEPT !.filename = filename, !.ext = filename.ext]
          /\ output' = SaveScore(target')
          /\ err' = NoError
    /\ UNCHANGED <<source_paths, target_path, opts, disk, pc, sources, skipped_files,
                   duplicate_warnings, i, progress, io, pictures_copied, new_eid, gui>>

(***************************************************************************)
(* One call of generate_new_eid.                                           *)
(***************************************************************************)
GenerateNewEid ==
    /\ pc = "new_eid"
    /\ new_eid.eid = <<>>
    /\ new_eid' = [new_eid EXCEPT !.eid = generate_new_eid(new_eid.random_bytes)]
    /\ UNCHANGED <<source_paths, target_path, opts, disk, pc, target, sources, skipped_files,
                   duplicate_warnings, i, progress, io, output, pictures_copied, err, gui>>

(***************************************************************************)
(* The inputs: files, paths and options, drawn from bounded sets.          *)
(***************************************************************************)
Measure(eid) == [tag |-> "Measure", title |-> FALSE, eid |-> eid, repeat |-> FALSE]
\* a measure that contains a repeat
RepeatMeasure(eid) == [Measure(eid) EXCEPT !.repeat = TRUE]
Frame(tag, title) == [tag |-> tag, title |-> title, eid |-> NoEid, repeat |-> FALSE]
\* a child of a Staff element that is neither a measure nor a frame
Other == [tag |-> "StaffType", title |-> FALSE, eid |-> NoEid, repeat |-> FALSE]

StaffIdsOf(staffs) == [s \in DOMAIN staffs |-> staffs[s].id]

RECURSIVE KidLists(_, _, _, _)
\* the lists of m child sequences over kidSet, at most perStaff children in
\* each and at most budget in all
KidLists(m, kidSet, perStaff, budget) ==
    IF m = 0 THEN {<<>>}
    ELSE UNION {{<<ks>> \o rest : rest \in KidLists(m - 1, kidSet, perStaff, budget - Len(ks))} :
                  ks \in SeqsUpTo(kidSet, IF perStaff < budget THEN perStaff ELSE budget)}

\* the Staff lists with ids in idSeqs, children from kidSet, at most perStaff
\* children in a staff and at most MaxKids in the file
StaffLists(idSeqs, kidSet, perStaff) ==
    UNION {{[s \in DOMAIN ids |-> [id |-> ids[s], kids |-> kl[s]]] :
              kl \in KidLists(Len(ids), kidSet, perStaff, MaxKids)} : ids \in idSeqs}

AnyIdSeqs == SeqsFromTo(StaffIds, 1, MaxStaffs)
\* the ids MuseScore writes: 1, 2, ... in document order
AscendingIdSeqs == {[s \in 1..m |-> s] : m \in 1..MaxStaffs}

\* the eids of the Measure children of a list of Staff elements
MeasureEids(staffs) ==
    UNION {{staffs[s].kids[k].eid : k \in MeasureIdx(staffs[s].kids)} : s \in DOMAIN staffs}
        \ {NoEid}

Picture(file, data) == [name |-> <<"Pictures", file>>, data |-> data]

GoodFile(parts, staffs, locks, zip_entries) ==
    [state |-> "ok", parts |-> parts, staffs |-> staffs, locks |-> locks,
     zip_entries |-> zip_entries]
BadFile(state) ==
    [state |-> state, parts |-> <<>>, staffs |-> <<>>, locks |-> NoLocks, zip_entries |-> {}]

SimpleFile == GoodFile(<<"Violin 1">>, <<[id |-> 1, kids |-> <<Measure(NoEid)>>]>>, NoLocks, {})

\* the defaults of concatenate (lines 191-197)
DefaultOpts ==
    [copy_frames |-> TRUE, copy_title_frames |-> TRUE, copy_system_locks |-> TRUE,
     copy_pictures |-> FALSE, break_type |-> "none", break_options |-> NoBreakOptions,
     skip_incompatible |-> TRUE,
     fuzzy_matching |-> FALSE, match_threshold |-> 70, number_strategy |-> "PREFER"]

CanonPaths(n) == [k \in 1..n |-> [name |-> k, ext |-> "mscz"]]
CanonTarget == [name |-> OutFile, ext |-> "mscz"]

InitWith(paths, tpath, o, d) ==
    /\ source_paths = paths
    /\ target_path = tpath
    /\ opts = o
    /\ disk = d
    /\ pc = "start"
    /\ target = NoScore
    /\ sources = <<>>
    /\ skipped_files = <<>>
    /\ duplicate_warnings = <<>>
    /\ i = 0
    /\ progress = <<>>
    /\ io = <<>>
    /\ output = NoOutput
    /\ pictures_copied = <<>>
    /\ err = NoError
    /\ new_eid = NoNewEid
    /\ gui = GuiDefaults

\* Runs that end early, one for each way: too few sources, an unreadable base,
\* an invalid base, an invalid source, a strict-mode incompatibility; and a run
\* with pictures.
InitCore ==
    \/ InitWith(CanonPaths(1), CanonTarget, DefaultOpts, <<SimpleFile>>)
    \/ \E f \in {SimpleFile, BadFile("missing"), BadFile("invalid")},
          g \in {SimpleFile, BadFile("invalid")} :
          InitWith(CanonPaths(2), CanonTarget, DefaultOpts, <<f, g>>)
    \/ \E ps \in {<<"Viola">>, <<"Violin 1">>}, p \in BOOLEAN :
          InitWith(CanonPaths(2), CanonTarget,
                   [DefaultOpts EXCEPT !.skip_incompatible = FALSE, !.copy_pictures = p],
                   <<SimpleFile, [SimpleFile EXCEPT !.parts = ps,
                                                    !.zip_entries = {Picture("a.png", "x")}]>>)

\* Spec: one source merged into a base, over source files with measures,
\* frames and other children and with their staffs in any order, under every
\* choice of the copy options.  The base has a measure in each staff, and in
\* one base of one staff a title frame before it.
ContentKids == {Measure(NoEid), Frame("VBox", TRUE), Frame("HBox", FALSE), Other}
EmptyLocks == [present |-> TRUE, entries |-> <<>>]
\* the ids 1..m in any order
PermutedIdSeqs ==
    UNION {{q \in [1..m -> 1..m] : \A a, b \in 1..m : q[a] = q[b] => a = b} :
             m \in 1..MaxStaffs}
ContentBaseFiles ==
    {GoodFile(<<"Violin 1">>, [s \in 1..m |-> [id |-> s, kids |-> <<Measure(NoEid)>>]],
              NoLocks, {}) : m \in 1..MaxStaffs}
        \cup {GoodFile(<<"Violin 1">>,
                       <<[id |-> 1, kids |-> <<Frame("VBox", TRUE), Measure(NoEid)>>]>>,
                       NoLocks, {})}
ContentSourceFiles ==
    {GoodFile(<<"Violin 1">>, ss, EmptyLocks, {}) :
        ss \in StaffLists(PermutedIdSeqs, ContentKids, MaxKids)}
\* every choice of the two frame options, and the defaults without system locks
ContentOpts ==
    {[DefaultOpts EXCEPT !.copy_frames = cf, !.copy_title_frames = ctf] :
        cf \in BOOLEAN, ctf \in BOOLEAN}
        \cup {[DefaultOpts EXCEPT !.copy_system_locks = FALSE]}

InitContent ==
    \E o \in ContentOpts, f \in ContentBaseFiles, g \in ContentSourceFiles :
        InitWith(CanonPaths(2), CanonTarget, o, <<f, g>>)

Init == InitCore \/ InitContent
Spec == Init /\ [][Next]_vars

\* SpecSeq: up to MaxSources documents of one staff each, over files with a
\* measure, frames and a system lock, with and without breaks.
LockRegions(eids) ==
    {NoLocks} \cup {[present |-> TRUE, entries |-> <<[startMeasure |-> a, endMeasure |-> b]>>] :
                      a \in eids, b \in eids}
UniqueEids(staffs) ==
    \A s1, s2 \in DOMAIN staffs : \A k1 \in DOMAIN staffs[s1].kids, k2 \in DOMAIN staffs[s2].kids :
        (staffs[s1].kids[k1].eid # NoEid /\ staffs[s1].kids[k1].eid = staffs[s2].kids[k2].eid)
            => (s1 = s2 /\ k1 = k2)

SeqKids == {Measure(1), Frame("HBox", FALSE)}
\* a file with a measure that carries an eid has a system lock on that measure
SeqFiles ==
    {GoodFile(<<"Violin 1">>, <<[id |-> 1, kids |-> ks]>>,
              IF Measure(1) \in Range(ks)
              THEN [present |-> TRUE, entries |-> <<[startMeasure |-> 1, endMeasure |-> 1]>>]
              ELSE NoLocks, {}) :
        ks \in {q \in SeqsUpTo(SeqKids, MaxKids) : UniqueEids(<<[id |-> 1, kids |-> q]>>)}}
SeqOpts == {[DefaultOpts EXCEPT !.break_type = bt] : bt \in {"none", "page,section"}}

InitSeqRuns ==
    \E n \in 2..MaxSources : \E o \in SeqOpts, d \in [1..n -> SeqFiles] :
        InitWith(CanonPaths(n), CanonTarget, o, d)

InitSeq == InitCore \/ InitSeqRuns
SpecSeq == InitSeq /\ [][Next]_vars

\* SpecEids: one source merged into a base, over files whose measures carry
\* eids and whose SystemLocks refer to them; the base's Staff ids ascend, the
\* source's are any.
EidKids == {Measure(NoEid)} \cup {Measure(e) : e \in EidSpace}
EidFiles(idSeqs) ==
    {GoodFile(<<"Violin 1">>, ss, l, {}) :
        ss \in {q \in StaffLists(idSeqs, EidKids, 1) : UniqueEids(q)},
        l \in LockRegions(EidSpace)}
\* the files whose SystemLock references resolve to a Measure eid of the file
ResolvedFiles(files) ==
    {f \in files : \A k \in DOMAIN f.locks.entries :
                      {f.locks.entries[k].startMeasure, f.locks.entries[k].endMeasure}
                          \subseteq MeasureEids(f.staffs)}
EidOpts == {[DefaultOpts EXCEPT !.copy_system_locks = csl] : csl \in BOOLEAN}

InitEidRuns ==
    \E o \in EidOpts, f \in ResolvedFiles(EidFiles(AscendingIdSeqs)),
       g \in ResolvedFiles(EidFiles(AnyIdSeqs)) :
        InitWith(CanonPaths(2), CanonTarget, o, <<f, g>>)

InitEids == InitCore \/ InitEidRuns
SpecEids == InitEids /\ [][Next]_vars

\* SpecUsage: two sources and a target under every choice of file names and
\* extensions, the files themselves in order.
Extensions == {"mscz", "MSCZ", "txt"}
Paths == [name : 0..NumNames, ext : Extensions]

InitUsageRuns ==
    \E p1 \in Paths, p2 \in Paths, tp \in Paths :
        InitWith(<<p1, p2>>, tp, DefaultOpts, <<SimpleFile, SimpleFile>>)

InitUsage == InitCore \/ InitUsageRuns
SpecUsage == InitUsage /\ [][Next]_vars

\* SpecStrict: a base and MaxSources - 1 sources under every choice of the
\* sources' part names and four of the base's,
\* under the skip and the strict policy, exact and fuzzy, with line breaks asked for.
PartNames == {"Violin 1", "Violin 2"}
PartLists == SeqsUpTo(PartNames, MaxParts) \cup {<<"">>}
PartFiles == {[SimpleFile EXCEPT !.parts = ps] : ps \in PartLists}
BasePartFiles ==
    {[SimpleFile EXCEPT !.parts = ps] :
        ps \in {<<>>, <<"Violin 1">>, <<"Violin 1", "Violin 1">>, <<"Violin 1", "Violin 2">>}}
StrictOpts ==
    {[DefaultOpts EXCEPT !.skip_incompatible = skip, !.fuzzy_matching = fz,
                         !.break_type = "line"] :
        skip \in BOOLEAN, fz \in BOOLEAN}

InitStrictRuns ==
    \E o \in StrictOpts, f \in BasePartFiles, d \in [1..(MaxSources - 1) -> PartFiles] :
        InitWith(CanonPaths(MaxSources), CanonTarget, o, <<f>> \o d)

InitStrict == InitCore \/ InitStrictRuns
SpecStrict == InitStrict /\ [][Next]_vars

\* SpecFuzzy: one source checked against a base, exactly and under fuzzy
\* matching, over every choice of their part names, of the threshold and of the
\* numeric strategy.  Thresholds are in percent.
FuzzyNames == {"Violin 1", "Violin 2", "Viola"}
Thresholds == {0, 50, 70, 100}
FuzzyOpts ==
    {[DefaultOpts EXCEPT !.fuzzy_matching = fz, !.match_threshold = th,
                         !.number_strategy = ns] :
        fz \in BOOLEAN, th \in Thresholds, ns \in {"IGNORE", "MATCH", "PREFER"}}

InitFuzzyRuns ==
    \E o \in FuzzyOpts, ps \in SeqsUpTo(FuzzyNames, MaxParts),
       qs \in SeqsUpTo(FuzzyNames \cup {"unscorable"}, MaxParts) \cup {<<"">>} :
        InitWith(CanonPaths(2), CanonTarget, o,
                 <<[SimpleFile EXCEPT !.parts = ps], [SimpleFile EXCEPT !.parts = qs]>>)

InitFuzzy == InitCore \/ InitFuzzyRuns
SpecFuzzy == InitFuzzy /\ [][Next]_vars

\* The entries of a container besides the score: pictures, the directory
\* entry "Pictures/" and a thumbnail.  No two entries of a file have one name.
ZipEntries ==
    {Picture("a.png", "x"), Picture("a.png", "y"), Picture("b.png", "x"),
     [name |-> <<"Pictures", "">>, data |-> ""],
     [name |-> <<"Thumbnails", "thumbnail.png">>, data |-> "t"]}
ZipEntrySets(n) ==
    {entries \in SUBSET ZipEntries :
        /\ Cardinality(entries) <= n
        /\ Cardinality(EntryNames(entries)) = Cardinality(entries)}
PictureFiles(n) ==
    {[SimpleFile EXCEPT !.zip_entries = entries] : entries \in ZipEntrySets(n)}

\* SpecPictures: MaxSources files of one staff with entries besides the score,
\* concatenated with copy_pictures on.
InitPictureRuns ==
    \E base \in PictureFiles(1), rest \in [1..(MaxSources - 1) -> PictureFiles(MaxEntries)] :
        InitWith(CanonPaths(MaxSources), CanonTarget,
                 [DefaultOpts EXCEPT !.copy_pictures = TRUE], <<base>> \o rest)

InitPictures == InitCore \/ InitPictureRuns
SpecPictures == InitPictures /\ [][Next]_vars

\* SpecContainer: a Score opened on a file, and a second Score to take
\* staffs and pictures from.
InitContainer ==
    \E base \in PictureFiles(MaxEntries), other \in PictureFiles(MaxEntries) :
        /\ source_paths = CanonPaths(2)
        /\ target_path = CanonTarget
        /\ opts = DefaultOpts
        /\ disk = <<base, other>>
        /\ pc = "container"
        /\ target = ParseScore(base, 1)
        /\ sources = <<ParseScore(other, 2)>>
        /\ skipped_files = <<>>
        /\ duplicate_warnings = <<>>
        /\ i = 0
        /\ progress = <<>>
        /\ io = <<>>
        /\ output = [written |-> TRUE, staffs |-> base.staffs, locks |-> base.locks,
                     zip_entries |-> base.zip_entries]
        /\ pictures_copied = <<>>
        /\ err = NoError
        /\ new_eid = NoNewEid
        /\ gui = GuiDefaults

SpecContainer == InitContainer /\ [][NextContainer]_vars

\* SpecBreaks: MaxSources documents of one or two staffs, each staff with no
\* measure, a measure or a measure with a repeat, concatenated with breaks
\* under every choice of the section break options.  Pauses are in seconds.
BreakFiles ==
    {GoodFile(<<"Violin 1">>, [s \in 1..m |-> [id |-> s, kids |-> ks]], NoLocks, {}) :
        m \in {1, 2},
        ks \in {<<>>, <<Measure(NoEid)>>, <<RepeatMeasure(NoEid)>>}}
BreakOptions ==
    {NoBreakOptions}
        \cup [given : {TRUE}, pause : {0, 3}, auto_detect_repeats : BOOLEAN]
BreakOpts ==
    {[DefaultOpts EXCEPT !.break_type = bt, !.break_options = bo] :
        bt \in {"line", "section", "page,section"}, bo \in BreakOptions}

InitBreakRuns ==
    \E o \in BreakOpts, d \in [1..MaxSources -> BreakFiles] :
        InitWith(CanonPaths(MaxSources), CanonTarget, o, d)

InitBreaks == InitCore \/ InitBreakRuns
SpecBreaks == InitBreaks /\ [][Next]_vars

\* SpecLocks: one source merged into a base, over files of one staff with one
\* measure whose SystemLocks region is absent or holds up to MaxLocks entries,
\* equal entries among them, with copy_system_locks on and off.
LockEntries == {[startMeasure |-> e, endMeasure |-> e] : e \in EidSpace}
LockLists == {NoLocks} \cup {[present |-> TRUE, entries |-> es] :
                               es \in SeqsUpTo(LockEntries, MaxLocks)}
LockFiles ==
    {GoodFile(<<"Violin 1">>, <<[id |-> 1, kids |-> <<Measure(e)>>]>>, l, {}) :
        e \in {NoEid, 1}, l \in LockLists}
LockOpts == {[DefaultOpts EXCEPT !.copy_system_locks = csl] : csl \in BOOLEAN}

InitLockRuns ==
    \E o \in LockOpts, f \in LockFiles, g \in LockFiles :
        InitWith(CanonPaths(2), CanonTarget, o, <<f, g>>)

InitLocks == InitCore \/ InitLockRuns
SpecLocks == InitLocks /\ [][Next]_vars

\* SpecFrames: one source of one staff merged into a base of one staff, the
\* source's staff holding measures and frames of several tags, with a title
\* text or without, under every choice of the two frame options.
FrameKids ==
    {Measure(NoEid), Frame("VBox", TRUE), Frame("VBox", FALSE), Frame("TBox", TRUE),
     Frame("HBox", TRUE), Frame("HBox", FALSE)}
FrameFiles ==
    {GoodFile(<<"Violin 1">>, <<[id |-> 1, kids |-> ks]>>, NoLocks, {}) :
        ks \in SeqsUpTo(FrameKids, MaxKids)}
FrameOpts ==
    {[DefaultOpts EXCEPT !.copy_frames = cf, !.copy_title_frames = ctf] :
        cf \in BOOLEAN, ctf \in BOOLEAN}

InitFrameRuns ==
    \E o \in FrameOpts, g \in FrameFiles :
        InitWith(CanonPaths(2), CanonTarget, o, <<SimpleFile, g>>)

InitFrames == InitCore \/ InitFrameRuns
SpecFrames == InitFrames /\ [][Next]_vars

\* SpecSaveAs: a Score opened from a .mscx or a .mscz file, then save_as
\* under any file name, time after time.
SaveAsPaths == [name : 0..NumNames, ext : {"mscz", "mscx", "txt"}]
OpenScore(path, file) ==
    [basename |-> path.name, filename |-> path, ext |-> path.ext,
     parts |-> ParseScore(file, 1).parts, staffs |-> ParseScore(file, 1).staffs,
     locks |-> file.locks,
     zip_entries |-> IF path.ext = "mscz" THEN file.zip_entries ELSE {}]

InitSaveAs ==
    \E path \in {p \in SaveAsPaths : p.ext \in {"mscz", "mscx"}},
       file \in PictureFiles(1) :
        /\ source_paths = <<path>>
        /\ target_path = path
        /\ opts = DefaultOpts
        /\ disk = <<file>>
        /\ pc = "score"
        /\ target = OpenScore(path, file)
        /\ sources = <<>>
        /\ skipped_files = <<>>
        /\ duplicate_warnings = <<>>
        /\ i = 0
        /\ progress = <<>>
        /\ io = <<>>
        /\ output = NoOutput
        /\ pictures_copied = <<>>
        /\ err = NoError
        /\ new_eid = NoNewEid
        /\ gui = GuiDefaults

NextSaveAs == \E filename \in SaveAsPaths : SaveAs(filename)
SpecSaveAs == InitSaveAs /\ [][NextSaveAs]_vars

(***************************************************************************)
(* ConcatenateGUI: the break checkboxes with their write traces, the fuzzy *)
(* options, and run, which calls concatenate.                              *)
(***************************************************************************)
\* on_page_break_change with a slip in it: System stays selected.
on_page_break_change_Keeps(g) == g

RECURSIVE SetVar(_, _, _), on_system_break_change(_)
\* lines 168-171; the packing of the info frame is left out
on_page_break_change(g) ==
    IF g.break_page_var THEN SetVar(g, "break_system_var", FALSE) ELSE g

\* lines 173-178
on_section_break_change(g) ==
    IF g.break_section_var THEN SetVar(g, "break_system_var", FALSE) ELSE g

\* lines 160-166
on_system_break_change(g) ==
    IF g.break_system_var
    THEN SetVar(SetVar(g, "break_page_var", FALSE), "break_section_var", FALSE)
    ELSE g

\* BooleanVar.set with the write trace of lines 180-182 run to its end
SetVar(g, name, value) ==
    LET written == [g EXCEPT ![name] = value]
    IN  CASE name = "break_system_var"  -> on_system_break_change(written)
          [] name = "break_page_var"    -> on_page_break_change(written)
          [] name = "break_section_var" -> on_section_break_change(written)
          [] OTHER -> written

GuiUnchanged ==
    UNCHANGED <<source_paths, target_path, opts, disk, pc, target, sources, skipped_files,
                duplicate_warnings, i, progress, io, output, pictures_copied, err, new_eid>>

\* lines 184-186, 100: a click on a Checkbutton writes the opposite value
ClickSystem ==
    /\ pc = "gui"
    /\ gui' = SetVar(gui, "break_system_var", ~gui.break_system_var)
    /\ GuiUnchanged
ClickPage ==
    /\ pc = "gui"
    /\ gui' = SetVar(gui, "break_page_var", ~gui.break_page_var)
    /\ GuiUnchanged
ClickSection ==
    /\ pc = "gui"
    /\ gui' = SetVar(gui, "break_section_var", ~gui.break_section_var)
    /\ GuiUnchanged
ClickFuzzy ==
    /\ pc = "gui"
    /\ gui' = SetVar(gui, "fuzzy_matching_var", ~gui.fuzzy_matching_var)
    /\ GuiUnchanged
\* line 118: the OptionMenu of the number strategy
SelectStrategy(strategy) ==
    /\ pc = "gui"
    /\ gui.number_strategy_var # strategy
    /\ gui' = SetVar(gui, "number_strategy_var", strategy)
    /\ GuiUnchanged

\* lines 544-550
RunBreakTypes(g) ==
    (IF g.break_system_var THEN <<"line">> ELSE <<>>)
        \o (IF g.break_page_var THEN <<"page">> ELSE <<>>)
        \o (IF g.break_section_var THEN <<"section">> ELSE <<>>)
RECURSIVE JoinComma(_)
JoinComma(strs) ==
    IF Len(strs) = 1 THEN Head(strs) ELSE Head(strs) \o "," \o JoinComma(Tail(strs))
\* lines 553-556
RunBreakType(g) ==
    IF RunBreakTypes(g) = <<>> THEN "none" ELSE JoinComma(RunBreakTypes(g))
\* lines 558-579: the options of a page or a line break hold no pause
RunBreakOptions(g) ==
    IF "section" \in Range(RunBreakTypes(g))
    THEN [given |-> TRUE, pause |-> g.section_pause_var,
          auto_detect_repeats |-> g.has_repeats_var]
    ELSE IF RunBreakType(g) \in {"page", "line"}
    THEN [given |-> TRUE, pause |-> 0, auto_detect_repeats |-> FALSE]
    ELSE NoBreakOptions
\* line 585: self.number_strategy_var.get().upper()
Upper(strategy) ==
    CASE strategy = "ignore" -> "IGNORE"
      [] strategy = "prefer" -> "PREFER"
      [] strategy = "match"  -> "MATCH"
\* lines 594-611: the arguments of the call of concatenate; number_strategy
\* is computed at line 585 and is not among them, so that concatenate takes
\* its default (src/ms_concatenate.py:197)
RunOpts(g) ==
    [copy_frames |-> g.copy_frames_var,
     copy_title_frames |-> IF g.copy_frames_var THEN g.copy_title_frames_var ELSE FALSE,
     copy_system_locks |-> g.copy_system_locks_var,
     copy_pictures |-> g.copy_pictures_var,
     break_type |-> RunBreakType(g), break_options |-> RunBreakOptions(g),
     skip_incompatible |-> g.skip_incompatible_var,
     fuzzy_matching |-> g.fuzzy_matching_var,
     match_threshold |-> Max({0, Min({100, g.match_threshold_var})}),
     number_strategy |-> DefaultOpts.number_strategy]

\* ConcatenateGUI.run, up to the call of concatenate
Run ==
    /\ pc = "gui"
    /\ gui.files # <<>>
    /\ source_paths' = gui.files
    /\ target_path' = CanonTarget
    /\ opts' = RunOpts(gui)
    /\ pc' = "start"
    /\ UNCHANGED <<disk, target, sources, skipped_files, duplicate_warnings, i, progress,
                   io, output, pictures_copied, err, new_eid, gui>>

\* SpecGui: the window with two files in its list, of one part each; any
\* clicks, then run.
GuiFiles == {[SimpleFile EXCEPT !.parts = ps] : ps \in [1..1 -> FuzzyNames]}
InitGui ==
    \E f \in GuiFiles, g \in GuiFiles :
        /\ source_paths = <<>>
        /\ target_path = CanonTarget
        /\ opts = DefaultOpts
        /\ disk = <<f, g>>
        /\ pc = "gui"
        /\ target = NoScore
        /\ sources = <<>>
        /\ skipped_files = <<>>
        /\ duplicate_warnings = <<>>
        /\ i = 0
        /\ progress = <<>>
        /\ io = <<>>
        /\ output = NoOutput
        /\ pictures_copied = <<>>
        /\ err = NoError
        /\ new_eid = NoNewEid
        /\ gui = [GuiDefaults EXCEPT !.files = CanonPaths(2)]

NextGui ==
    \/ ClickSystem
    \/ ClickPage
    \/ ClickSection
    \/ ClickFuzzy
    \/ \E strategy \in {"ignore", "prefer", "match"} : SelectStrategy(strategy)
    \/ Run
    \/ Next
SpecGui == InitGui /\ [][NextGui]_vars

\* SpecNewEid: one call of generate_new_eid for 16 bytes.  Each value is drawn
\* from the 64-bit values with at most two bytes other than 0, the values
\* 2^(8k) - 1 and the values whose low bytes are 0 and whose other bytes are 255.
ByteSamples == {0, 1, 4, 16, 63, 64, 128, 255}
U64Samples ==
    {[k \in 1..NumBytes |-> IF k = a THEN x ELSE IF k = b THEN y ELSE 0] :
        a \in 1..NumBytes, b \in 1..NumBytes, x \in ByteSamples, y \in ByteSamples}
    \cup {[k \in 1..NumBytes |-> IF k <= a THEN 255 ELSE 0] : a \in 0..NumBytes}
    \cup {[k \in 1..NumBytes |-> IF k > a THEN 255 ELSE 0] : a \in 0..NumBytes}
U64Few ==
    {[k \in 1..NumBytes |-> 0], [k \in 1..NumBytes |-> 255],
     [k \in 1..NumBytes |-> IF k = 1 THEN 64 ELSE 0]}

InitNewEid ==
    \E b1 \in U64Samples, b2 \in U64Few : \E swap \in BOOLEAN :
        /\ source_paths = <<>>
        /\ target_path = CanonTarget
        /\ opts = DefaultOpts
        /\ disk = <<>>
        /\ pc = "new_eid"
        /\ target = NoScore
        /\ sources = <<>>
        /\ skipped_files = <<>>
        /\ duplicate_warnings = <<>>
        /\ i = 0
        /\ progress = <<>>
        /\ io = <<>>
        /\ output = NoOutput
        /\ pictures_copied = <<>>
        /\ err = NoError
        /\ new_eid = [random_bytes |-> IF swap THEN b2 \o b1 ELSE b1 \o b2, eid |-> <<>>]
        /\ gui = GuiDefaults

NextNewEid == GenerateNewEid
SpecNewEid == InitNewEid /\ [][NextNewEid]_vars

(***************************************************************************)
(* The claims.                                                             *)
(***************************************************************************)
IsPrefix(s, t) == Len(s) <= Len(t) /\ \A k \in DOMAIN s : s[k] = t[k]
MeasureCount(kids) == Cardinality(MeasureIdx(kids))
Loaded == pc \in {"load_sources", "validate", "first_breaks", "merge", "pictures", "done"}

\* an element as it was, but for layout-break markers appended inside a measure
SameButBreaks(old, new) ==
    /\ [old EXCEPT !.brk = <<>>] = [new EXCEPT !.brk = <<>>]
    /\ IsPrefix(old.brk, new.brk)
    /\ old.tag # "Measure" => old.brk = new.brk

KidsKept(old, new) ==
    /\ Len(old) <= Len(new)
    /\ \A k \in DOMAIN old : SameButBreaks(old[k], new[k])

AppendOnlyStep ==
    /\ Len(target'.staffs) = Len(target.staffs)
    /\ \A s \in DOMAIN target.staffs :
          /\ target'.staffs[s].id = target.staffs[s].id
          /\ KidsKept(target.staffs[s].kids, target'.staffs[s].kids)
    /\ target.locks.present => target'.locks.present
    /\ IsPrefix(target.locks.entries, target'.locks.entries)

\* C1: append-only.  In every step of a run after the target is opened (a
\* layout-break insertion, a concatenate_score call), each Staff element of the
\* target keeps its id and its children as a prefix of its new children, in the
\* same order and unchanged but for break markers appended inside a measure,
\* and the SystemLocks entries stay, in order, as a prefix of the new entries.
C1_AppendOnly == [][Loaded => AppendOnlyStep]_vars

\* a run of three documents with breaks: the base's measure carries the break
\* markers and is followed by content of both sources, and the base's lock
\* entry is followed by the sources' entries
C1_Witness ==
    /\ pc = "merge" /\ i = 2
    /\ \E s \in DOMAIN target.staffs :
          /\ Len(target.staffs[s].kids) >= 3
          /\ target.staffs[s].kids[1].org[1] = 1
          /\ Len(target.staffs[s].kids[1].brk) > 0
          /\ {2, 3} \subseteq {target.staffs[s].kids[k].org[1] : k \in DOMAIN target.staffs[s].kids}
    /\ disk[1].locks.present
    /\ Len(target.locks.entries) = 3

DocOf(kid) == kid.org[1]
PosOf(kid) == kid.org[3]
\* the documents merged so far: the base and the first i accepted sources
MergedDocs == {1} \cup {sources[k].basename : k \in 1..i}

\* C6: ordering.  Within every target staff the content of the base comes
\* first, then the content of the accepted sources in input order, each
\* source's copied children in the order they have in the source's staff; and
\* the target holds content of the base and of the first i accepted sources only.
C6_Ordering ==
    (Loaded /\ pc # "load_sources" /\ pc # "validate") =>
        /\ \A s \in DOMAIN target.staffs :
              \A a, b \in DOMAIN target.staffs[s].kids :
                 a < b =>
                    LET x == target.staffs[s].kids[a]
                        y == target.staffs[s].kids[b]
                    IN  \/ DocOf(x) < DocOf(y)
                        \/ DocOf(x) = DocOf(y) /\ PosOf(x) < PosOf(y)
        /\ \A kid \in AllKids(target) : DocOf(kid) \in MergedDocs
        /\ \A a, b \in DOMAIN sources : a < b => sources[a].basename < sources[b].basename

\* three documents merged, two children of the last source after a child of
\* the one before it and a child of the base
C6_Witness ==
    /\ pc = "merge" /\ i = 2
    /\ \E s \in DOMAIN target.staffs :
          /\ Len(target.staffs[s].kids) = 4
          /\ [k \in 1..4 |-> DocOf(target.staffs[s].kids[k])] = <<1, 2, 3, 3>>
          /\ target.staffs[s].kids[3].tag # target.staffs[s].kids[4].tag

Merging == pc = "merge" /\ i < Len(sources)

MeasuresAdded ==
    /\ Len(target'.staffs) = Len(target.staffs)
    /\ \A s \in DOMAIN target.staffs :
          MeasureCount(target'.staffs[s].kids) =
              MeasureCount(target.staffs[s].kids) + MeasureCount(sources[i + 1].staffs[s].kids)

\* C5: measure counts.  When the source's Staff ids are the target's, staff by
\* staff, a concatenate_score call leaves the number of target staffs unchanged
\* and adds to each target staff as many Measure children as the source staff
\* of the same id has, whatever copy_frames, copy_title_frames and
\* copy_system_locks are.
C5_MeasureCount ==
    [][(Merging /\ StaffIdsOf(sources[i + 1].staffs) = StaffIdsOf(target.staffs))
          => MeasuresAdded]_vars

\* a source with a frame and a measure in one staff merged with frame copying
\* off: the measure is in the target, the frame is not
C5_Witness ==
    /\ pc = "merge" /\ i = 1 /\ ~opts.copy_frames
    /\ StaffIdsOf(sources[1].staffs) = StaffIdsOf(target.staffs)
    /\ \E s \in DOMAIN target.staffs :
          /\ \E k \in DOMAIN sources[1].staffs[s].kids :
                sources[1].staffs[s].kids[k].tag \in FRAME_TAGS
          /\ MeasureCount(sources[1].staffs[s].kids) = 1
          /\ MeasureCount(target.staffs[s].kids) = 2
          /\ Len(target.staffs[s].kids) = 2

StaffOrders(n) == {p \in [1..n -> 1..n] : \A a, b \in 1..n : p[a] = p[b] => a = b}
\* the same Staff elements enumerated in another document order
PermuteStaffs(score, p) ==
    [score EXCEPT !.staffs = [k \in DOMAIN score.staffs |-> score.staffs[p[k]]]]
Concatenated(source) ==
    concatenate_score(target, source, opts.copy_frames, opts.copy_title_frames,
                      opts.copy_system_locks)

DistinctIds(staffs) == \A a, b \in DOMAIN staffs : staffs[a].id = staffs[b].id => a = b

\* C4: alignment by identifier.  For the target as it is when a source is about
\* to be merged, no Staff id repeated in either document, the source and every
\* document made of the same Staff elements in another order give the same
\* target after concatenate_score.
C4_AlignedById ==
    (Merging /\ DistinctIds(target.staffs) /\ DistinctIds(sources[i + 1].staffs)) =>
        \A p \in StaffOrders(Len(sources[i + 1].staffs)) :
            Concatenated(PermuteStaffs(sources[i + 1], p)) = Concatenated(sources[i + 1])

\* C8: single terminal save.  Nothing is written to the output path before the
\* save: a run that stopped with an error after the precondition checks has
\* not written the output path, and a finished run has written it once, by the
\* save.
C8_SingleTerminalSave ==
    /\ pc \notin {"pictures", "done"} => (OutputWrites = <<>> /\ ~output.written)
    /\ pc \in {"pictures", "done"} => OutputWrites = <<"save">>

\* the base document as opened, and the one source of a two-document run as opened
Base == ParseScore(disk[1], 1)
Merged == pc = "merge" /\ i = 1 /\ Len(source_paths) = 2
\* the children of the target that were copied from the source
CopiedKids == {kid \in AllKids(target) : DocOf(kid) = 2}
CopiedEids == {kid.eid : kid \in CopiedKids} \ {NoEid}
\* the child of a score a copy was made of
Original(score, kid) == score.staffs[kid.org[2]].kids[kid.org[3]]

\* C2: identifier uniqueness.  After a source free of repeated eids is merged
\* into a target free of repeated eids, no eid occurs twice in the target.
C2_UniqueEids ==
    (Merged /\ UniqueEids(Base.staffs) /\ UniqueEids(sources[1].staffs))
        => UniqueEids(target.staffs)

LocksResolve(score) ==
    \A k \in DOMAIN score.locks.entries :
        {score.locks.entries[k].startMeasure, score.locks.entries[k].endMeasure}
            \subseteq MeasureEids(score.staffs)

\* the Measure children of a score that carry an eid
MeasuresWithEid(score, eid) ==
    {kid \in AllKids(score) : kid.tag = "Measure" /\ kid.eid = eid}

\* the reference ref of the target is to the copy of each measure the
\* reference orig of the source was to
PointsAtCopy(ref, orig) ==
    \A m \in MeasuresWithEid(sources[1], orig) :
        \E c \in MeasuresWithEid(target, ref) : c.org = m.org

\* C3: reference integrity.  After a merge with copy_system_locks on, of a
\* source and a target whose SystemLock references resolve each in its own
\* document, every SystemLock reference of the target is the eid of a Measure
\* of the target, and each reference copied from the source is to the copy of
\* the measure it was to in the source.
C3_LocksResolve ==
    (Merged /\ opts.copy_system_locks /\ LocksResolve(Base) /\ LocksResolve(sources[1])) =>
        /\ LocksResolve(target)
        /\ \A k \in DOMAIN target.locks.entries :
              k > Len(Base.locks.entries) =>
                 LET e == target.locks.entries[k]
                     o == sources[1].locks.entries[k - Len(Base.locks.entries)]
                 IN  /\ PointsAtCopy(e.startMeasure, o.startMeasure)
                     /\ PointsAtCopy(e.endMeasure, o.endMeasure)

SharedEids == ScoreEids(Base) \cap ScoreEids(sources[1])

\* C7: deduplication changes only the source.  After the merge of a source
\* that shares an eid with the target, the target's own children are as they
\* were, a copied child whose eid was not shared has the eid it had, a copied
\* child whose eid was shared has an eid that neither document had, and the
\* target has as many distinct eids as it had plus as many as the copied
\* content carries.
C7_DedupOnlySource ==
    (Merged /\ SharedEids # {}) =>
        /\ \A s \in DOMAIN Base.staffs : IsPrefix(Base.staffs[s].kids, target.staffs[s].kids)
        /\ \A kid \in CopiedKids :
              LET old == Original(sources[1], kid).eid
              IN  IF old \in SharedEids
                  THEN kid.eid \notin ScoreEids(Base) \cup ScoreEids(sources[1])
                  ELSE kid.eid = old
        /\ Cardinality(ScoreEids(target)) =
              Cardinality(ScoreEids(Base)) + Cardinality(CopiedEids)

\* Score.__init__ takes a path for a container when its extension is .mscz as written
HasContainerExtension(path) == path.ext = "mscz"

BadUsage ==
    \/ Len(source_paths) < 2
    \/ \E k \in DOMAIN source_paths : ~HasContainerExtension(source_paths[k])
    \/ ~HasContainerExtension(target_path)
    \/ target_path \in Range(source_paths)
    \/ \E a, b \in DOMAIN source_paths : a < b /\ source_paths[a] = source_paths[b]

\* C9: usage preconditions.  A call with fewer than two sources, a source or a
\* target without the container extension, a target that is a source, or the
\* same source twice ends in a usage error, and nothing has been copied, read
\* or written when it does.
C9_UsageBeforeIO ==
    (BadUsage /\ pc # "start") =>
        (pc = "error" /\ err.kind = "usage" /\ io = <<>> /\ ~output.written)

\* the sources as opened, whatever the run has done with them since
OpenedSources == [k \in 1..(Len(source_paths) - 1) |-> ParseScore(disk[k + 1], k + 1)]
Incompatible ==
    {k \in DOMAIN OpenedSources :
        SkipReason(CleanParts(part_names(Base)), OpenedSources[k], opts) # ""}
Validated == pc \in {"first_breaks", "merge", "pictures", "done", "error"} /\ "read sources" \in Range(io)

\* C10: strict policy.  A run with skip_incompatible off that has validated
\* sources of which one at least is incompatible has ended in an error that
\* names the first incompatible source in input order and its reason; the
\* target tree is the base as opened, without a layout break and without
\* appended content, and nothing was saved.
C10_StrictAborts ==
    (~opts.skip_incompatible /\ Validated /\ Incompatible # {}) =>
        LET k == Min(Incompatible)
        IN  /\ pc = "error" /\ err.kind = "incompatible"
            /\ err.file = OpenedSources[k].basename
            /\ err.reason = SkipReason(CleanParts(part_names(Base)), OpenedSources[k], opts)
            /\ target = Base
            /\ "save" \notin Range(io)

\* a strict run stopped on its second source, the first being compatible, and
\* one stopped on the first of two incompatible sources
C10_Witness ==
    /\ ~opts.skip_incompatible /\ pc = "error" /\ err.kind = "incompatible"
    /\ Len(source_paths) = 3
    /\ \/ Incompatible = {2} /\ err.file = 3
       \/ Incompatible = {1, 2} /\ err.file = 2

\* the sources the validation accepts, in input order
Compatible ==
    SelectSeq(OpenedSources,
              LAMBDA src : SkipReason(CleanParts(part_names(Base)), src, opts) = "")
\* the documents the children of the target's first staff come from, in order
DocsOfFirstStaff == [k \in DOMAIN target.staffs[1].kids |-> DocOf(target.staffs[1].kids[k])]

\* C11: skip policy.  With skip_incompatible on, a run that has validated its
\* sources has not stopped with an error; the skip list holds exactly the
\* incompatible sources, in input order, each with its file and its reason;
\* the sources kept are the compatible ones in input order, and when the loop
\* is over the target holds the base's content followed by theirs in that order.
C11_SkipPolicy ==
    (opts.skip_incompatible /\ Validated) =>
        /\ pc # "error" /\ err = NoError
        /\ Len(skipped_files) = Cardinality(Incompatible)
        /\ Range(skipped_files) =
              {[file   |-> OpenedSources[k].basename,
                reason |-> SkipReason(CleanParts(part_names(Base)), OpenedSources[k], opts)] :
                 k \in Incompatible}
        /\ \A a, b \in DOMAIN skipped_files : a < b => skipped_files[a].file < skipped_files[b].file
        /\ sources = Compatible
        /\ pc \in {"pictures", "done"} =>
              DocsOfFirstStaff = <<1>> \o [j \in DOMAIN Compatible |-> Compatible[j].basename]

\* a finished run of three documents whose first source was skipped and whose
\* second source was merged
C11_Witness ==
    /\ opts.skip_incompatible /\ pc = "done"
    /\ Len(skipped_files) = 1 /\ skipped_files[1].file = 2
    /\ DocsOfFirstStaff = <<1, 3>>

\* the non-empty Part names of the file of document d, one entry per Part
PartNamesInFile(d) == CleanParts(disk[d].parts)
SkippedDocs == {skipped_files[j].file : j \in DOMAIN skipped_files}

\* C12: exact strategy.  With fuzzy matching off, a validated source that has
\* a non-empty Part name is accepted if and only if its list of non-empty Part
\* names, one entry per Part with repeated names kept, equals the target's
\* element for element.
C12_ExactMatch ==
    (Validated /\ ~opts.fuzzy_matching) =>
        \A d \in 2..Len(source_paths) :
            PartNamesInFile(d) # <<>> =>
                (d \notin SkippedDocs <=> PartNamesInFile(d) = PartNamesInFile(1))

\* the Part names validate_and_skip_files compares, of the base and of source d
NamesCompared(d) == CleanParts(part_names(ParseScore(disk[d], d)))

\* every position of the two name lists scores at or above the threshold
\* under the caller's numeric strategy, and no scoring raises
AllPositionsPass(target_parts, source_parts) ==
    \A k \in DOMAIN target_parts :
        /\ ~MatcherRaises(target_parts[k], source_parts[k])
        /\ FuzzyScore(target_parts[k], source_parts[k], opts.number_strategy)
              >= opts.match_threshold

\* C13: fuzzy strategy.  With fuzzy matching on and the numeric strategy one of
\* IGNORE, MATCH, PREFER, a validated source whose list of part names is as
\* long as the target's (and not empty) is accepted if and only if at every
\* position the matcher, given the caller's numeric strategy, scores the pair
\* of names at or above the threshold without raising.
C13_FuzzyMatch ==
    (Validated /\ opts.fuzzy_matching
       /\ opts.number_strategy \in {"IGNORE", "MATCH", "PREFER"}) =>
        \A d \in 2..Len(source_paths) :
            (NamesCompared(d) # <<>> /\ Len(NamesCompared(d)) = Len(NamesCompared(1))) =>
                (d \notin SkippedDocs <=> AllPositionsPass(NamesCompared(1), NamesCompared(d)))

\* a source of two parts skipped although its first name passes: the second
\* scores below the threshold, or cannot be scored
C13_Witness ==
    /\ Validated /\ opts.fuzzy_matching /\ opts.number_strategy = "MATCH"
    /\ Len(NamesCompared(1)) = 2 /\ Len(NamesCompared(2)) = 2
    /\ AllPositionsPass(<<NamesCompared(1)[1]>>, <<NamesCompared(2)[1]>>)
    /\ ~AllPositionsPass(NamesCompared(1), NamesCompared(2))
    /\ skipped_files = <<[file |-> 2, reason |-> "different instrumentation (fuzzy)"]>>

\* C14: no musical parts.  A validated source whose Part names are all empty
\* (or that has no Part) is in the skip list with the reason "no musical
\* parts", whatever the strategy, the threshold, the numeric policy and the
\* target's own names are.
C14_NoMusicalParts ==
    Validated =>
        \A d \in 2..Len(source_paths) :
            PartNamesInFile(d) = <<>> =>
                [file |-> d, reason |-> "no musical parts"] \in Range(skipped_files)

\* target and source both without a non-empty Part name, fuzzy matching on
\* with threshold 0: the source is skipped all the same
C14_Witness ==
    /\ Validated /\ opts.fuzzy_matching /\ opts.match_threshold = 0
    /\ PartNamesInFile(1) = <<>> /\ disk[2].parts = <<"">>
    /\ skipped_files = <<[file |-> 2, reason |-> "no musical parts"]>>

IdSet(staffs) == {staffs[s].id : s \in DOMAIN staffs}
StructuralMismatch(a, b) ==
    IdSet(a.staffs) # IdSet(b.staffs) \/ Len(a.staffs) # Len(b.staffs)

\* C15: structural mismatch.  After the merge of a source whose set of Staff
\* ids, or whose number of Staff elements, differs from the target's, the
\* target is as it was: no measure, no frame and no SystemLock entry was
\* appended; and the run has not stopped with an error.
C15_MismatchAppendsNothing ==
    (Merged /\ StructuralMismatch(Base, sources[1])) =>
        (target = Base /\ err = NoError)

\* the sources left out of the merge: rejected by the validation, or given up
\* by concatenate_score for their number of Staff elements
ExcludedDocs ==
    {d \in 2..Len(source_paths) :
        \/ (d - 1) \in Incompatible
        \/ Len(OpenedSources[d - 1].staffs) # Len(Base.staffs)}

\* C16: the returned list.  When concatenate returns, the list it returns
\* names exactly the sources left out of the merge, be it by the validation
\* or by a mismatch of the staffs found while merging.
C16_ExcludedAreListed ==
    pc = "done" => SkippedDocs = ExcludedDocs

FramesOf(kids) == SelectSeq(kids, LAMBDA kid : kid.tag \in FRAME_TAGS)

\* C17: frame copying off.  With copy_frames off, at every moment of a run the
\* frames of each target staff are the frames the base document had in that
\* staff, whatever copy_title_frames is and whether the source's frames are
\* title frames or not.
C17_NoFramesCopied ==
    (Loaded /\ ~opts.copy_frames) =>
        \A s \in DOMAIN target.staffs :
            FramesOf(target.staffs[s].kids) = FramesOf(Base.staffs[s].kids)

\* a finished run with copy_frames off and copy_title_frames on: the source had
\* a title frame and a measure in a staff, the base a title frame of its own;
\* the target has the measure and the base's frame only
C17_Witness ==
    /\ pc = "done" /\ ~opts.copy_frames /\ opts.copy_title_frames
    /\ \E s \in DOMAIN target.staffs :
          /\ s \in DOMAIN sources[1].staffs
          /\ Len(FramesOf(sources[1].staffs[s].kids)) = 1
          /\ FramesOf(sources[1].staffs[s].kids)[1].title
          /\ \E kid \in Range(target.staffs[s].kids) : DocOf(kid) = 2
          /\ Len(FramesOf(target.staffs[s].kids)) = 1

\* C18: the container keeps its entries.  A save leaves in the file every
\* entry the file held before it, which are the entries read when the Score
\* was opened and the pictures added since, each with the bytes it had.
C18_SaveKeepsEntries ==
    [][(pc = "container" /\ io' = <<"save">>) =>
          output.zip_entries \subseteq output'.zip_entries]_vars

\* the entries of all the Scores in sources, and the first of sources that has
\* an entry of a given name
SourceEntries == UNION {sources[k].zip_entries : k \in DOMAIN sources}
FirstWith(name) ==
    CHOOSE k \in DOMAIN sources :
        /\ name \in EntryNames(sources[k].zip_entries)
        /\ \A j \in 1..(k - 1) : name \notin EntryNames(sources[j].zip_entries)

\* The picture loop of a run has copied the entries named in wanted and only
\* them: each entry the file held is still there with its bytes, no name is
\* there twice, each wanted name the file lacked is there with the bytes it has
\* in the first source that has it, and each call returned the number of
\* entries it added.
CopierCopied(wanted) ==
    LET before == output.zip_entries
        after  == output'.zip_entries
        added  == after \ before
    IN  /\ before \subseteq after
        /\ Cardinality(EntryNames(after)) = Cardinality(after)
        /\ EntryNames(added) = wanted \ EntryNames(before)
        /\ \A entry \in added : entry \in sources[FirstWith(entry.name)].zip_entries
        /\ Len(pictures_copied') = Len(sources)
        /\ \A k \in DOMAIN sources :
              pictures_copied'[k] =
                  Cardinality({entry \in added : FirstWith(entry.name) = k})

\* C19: the asset copier, as amended.  The picture loop copies exactly the
\* source entries whose name starts with "Pictures/", does not end with "/" and
\* is not yet in the target container, bytes unchanged; it never overwrites or
\* duplicates an entry of the target, one copied from an earlier source
\* included, and each call returns the number of entries it added.
C19_AssetCopier ==
    [][(pc = "pictures" /\ opts.copy_pictures) =>
          CopierCopied({name \in EntryNames(SourceEntries) :
                           StartsWithPictures(name) /\ ~EndsWithSlash(name)})]_vars

\* C19 as stated: every source entry whose name starts with "Pictures/" and is
\* not yet in the target container is copied, the entry "Pictures/" included.
C19_AssetCopier_AsStated ==
    [][(pc = "pictures" /\ opts.copy_pictures) =>
          CopierCopied({name \in EntryNames(SourceEntries) :
                           StartsWithPictures(name)})]_vars

\* a finished run of two sources that both hold Pictures/a.png, with different
\* bytes, and a base that holds a thumbnail: the output has the thumbnail and
\* the picture of the first source, and the calls returned 1 and 0
C19_Witness ==
    /\ pc = "done" /\ opts.copy_pictures /\ Len(sources) = 2
    /\ Picture("a.png", "x") \in sources[1].zip_entries
    /\ Picture("a.png", "y") \in sources[2].zip_entries
    /\ target.zip_entries = {[name |-> <<"Thumbnails", "thumbnail.png">>, data |-> "t"]}
    /\ output.zip_entries = target.zip_entries \cup {Picture("a.png", "x")}
    /\ pictures_copied = <<1, 0>>

StaffsAligned(a, b) ==
    /\ Len(a.staffs) = Len(b.staffs)
    /\ \A s \in DOMAIN a.staffs : a.staffs[s].id = b.staffs[s].id

\* C20: identifier collisions.  A turn of the merge loop never ends the run
\* with an error and never puts the source on the skip list; concatenate, the
\* caller of concatenate_score, is told of a renaming exactly when the eids of
\* the target and of the source intersected before the turn (it then notes the
\* source in duplicate_warnings); and a source whose staffs are aligned with
\* the target's has its measures appended, colliding eids or not.
C20_CollisionIsNoError ==
    [][Merging =>
          LET source   == sources[i + 1]
              collided == ScoreEids(target) \cap ScoreEids(source) # {}
          IN  /\ pc' = "merge" /\ err' = NoError
              /\ skipped_files' = skipped_files
              /\ duplicate_warnings' = IF collided
                                       THEN Append(duplicate_warnings, source.basename)
                                       ELSE duplicate_warnings
              /\ StaffsAligned(target, source) => MeasuresAdded]_vars

\* a finished run whose source shared an eid with the base: the source is in
\* duplicate_warnings, not in skipped_files, and its measure is in the target
C20_Witness ==
    /\ pc = "done" /\ err = NoError
    /\ Len(sources) = 1
    /\ ScoreEids(Base) \cap ScoreEids(sources[1]) # {}
    /\ duplicate_warnings = <<2>> /\ skipped_files = <<>>
    /\ \E kid \in CopiedKids : kid.tag = "Measure"

\* the file name the last save_as was called with
Requested == IF err' # NoError THEN err'.file ELSE target'.filename
Converts(from, to) == {from, to} = {"mscz", "mscx"}

\* C21: save_as rejects format conversion.  A save_as that asks for the other
\* format, .mscx for a Score held as .mscz or .mscz for one held as .mscx,
\* raises and leaves the Score's filename and ext as they were; a save_as to
\* a file name of the Score's own format raises nothing, takes the name and
\* writes the file in that format.
C21_NoFormatConversion ==
    [][pc = "score" =>
          IF Converts(target.ext, Requested.ext)
          THEN err' # NoError /\ target' = target
          ELSE target.ext = Requested.ext =>
                  /\ err' = NoError
                  /\ target'.filename = Requested /\ target'.ext = target.ext
                  /\ output'.written /\ output'.filename = Requested
                  /\ output'.form = target.ext]_vars

\* the break markers of a type in a score, each as <<staff, child, place>>
Markers(score, bt) ==
    UNION {UNION {{<<s, k, j>> : j \in {x \in DOMAIN score.staffs[s].kids[k].brk :
                                           score.staffs[s].kids[k].brk[x].type = bt}} :
                     k \in DOMAIN score.staffs[s].kids} :
             s \in DOMAIN score.staffs}
SelectedTypes ==
    IF opts.break_type = "page,section" THEN {"page", "section"}
    ELSE {opts.break_type} \ {"none"}
\* how many times breaks have been inserted so far in the run: at the end of
\* the base, and before every later source that the loop has taken up
Insertions ==
    IF pc = "first_breaks" \/ Len(sources) = 0 THEN 0
    ELSE IF i = 0 THEN 1 ELSE i
\* the documents merged before the one merged last
MergedBefore == IF i = 0 THEN {1} ELSE MergedDocs \ {sources[i].basename}

\* a step of the run puts markers on the measure that was last in its staff
\* before the step and on no other child, one of each selected type
MarkersOnLastMeasure ==
    \A s \in DOMAIN target'.staffs : \A k \in DOMAIN target'.staffs[s].kids :
        LET kid == target'.staffs[s].kids[k]
        IN  IF k \in DOMAIN target.staffs[s].kids
            THEN LET old == target.staffs[s].kids[k].brk
                 IN  kid.brk # old =>
                        /\ k = Max(MeasureIdx(target.staffs[s].kids))
                        /\ Len(kid.brk) = Len(old) + Cardinality(SelectedTypes)
                        /\ {kid.brk[j].type : j \in (Len(old) + 1)..Len(kid.brk)}
                              = SelectedTypes
            ELSE kid.brk = <<>>

MarkersCounted ==
    (pc \in {"first_breaks", "merge", "pictures", "done"} /\ StaffsWithMeasure(Base) # {}) =>
        \A bt \in SelectedTypes :
            /\ Cardinality(Markers(target, bt)) = Insertions
            /\ \A m \in Markers(target, bt) :
                  DocOf(target.staffs[m[1]].kids[m[2]]) \in MergedBefore

PauseFor(kid) ==
    IF opts.break_options.auto_detect_repeats /\ kid.repeat
    THEN 0 ELSE opts.break_options.pause

\* C23: repeat-aware pause.  In a run with break options, every section break
\* in the target, the one at the end of the first document included, has
\* pause 0 if auto_detect_repeats is on and the measure it was put on, the
\* last of the target at that moment, contains a repeat, and the configured
\* pause otherwise; and no step of the run changes the caller's options.
C23_RepeatAwarePause ==
    /\ [](opts.break_options.given =>
            \A m \in Markers(target, "section") :
                LET kid == target.staffs[m[1]].kids[m[2]]
                IN  kid.brk[m[3]].options.pause = PauseFor(kid))
    /\ [][opts' = opts]_vars

\* C29: one break per measure.  At every moment of a run no child of a target
\* staff carries two break markers of one type; so when a source appended
\* nothing, the break before the next source is not on the measure that has
\* the break inserted before the source that appended nothing.
C29_OneBreakPerMeasure ==
    Loaded =>
        \A kid \in AllKids(target) : \A a, b \in DOMAIN kid.brk :
            kid.brk[a].type = kid.brk[b].type => a = b

\* the case C29 names: a run of a base of one staff, a source of two staffs and
\* a source of one staff, and the base's measure has two markers of one type
C29_MismatchCase ==
    /\ pc = "done" /\ Len(sources) = 2
    /\ Len(Base.staffs) = 1 /\ Len(sources[1].staffs) = 2 /\ Len(sources[2].staffs) = 1
    /\ MeasureIdx(sources[1].staffs[1].kids) # {}
    /\ \E kid \in AllKids(target) : DocOf(kid) = 1 /\ Len(kid.brk) = 2
                                       /\ kid.brk[1].type = kid.brk[2].type

\* the frames of a source staff that are to be copied: none with copy_frames
\* off; all but a title frame in first place with copy_title_frames off; all
\* with copy_title_frames on
FramesToCopy(kids) ==
    LET frames == FramesOf(kids)
    IN  IF ~opts.copy_frames THEN <<>>
        ELSE IF ~opts.copy_title_frames /\ frames # <<>> /\ frames[1].title
        THEN Tail(frames)
        ELSE frames

\* C24: title-frame suppression.  After the merge of a source, in each paired
\* staff the frames copied from the source are, in order, the frames of the
\* source staff, of any tag, without the first of them if it is a title frame
\* and copy_title_frames is off; with copy_title_frames on they are all of
\* them.
C24_TitleFrameSuppression ==
    (Merged /\ StaffsAligned(Base, sources[1])) =>
        \A s \in DOMAIN target.staffs :
            SelectSeq(FramesOf(target.staffs[s].kids), LAMBDA kid : DocOf(kid) = 2)
                = FramesToCopy(sources[1].staffs[s].kids)

\* the step of the run that merges the next accepted source
MergeStep == pc = "merge" /\ i' = i + 1

C25_WholeRegion ==
    /\ Merged /\ opts.copy_system_locks
    /\ ~Base.locks.present /\ sources[1].locks.present
    /\ Len(target.locks.entries) = MaxLocks

\* the value a string of base-64 digits stands for, most significant digit
\* first, as NumBytes + 1 bytes, the least significant first
DigitOf(char) == (CHOOSE k \in DOMAIN chars : chars[k] = char) - 1
RECURSIVE TimesPlus(_, _)
TimesPlus(le, carry) ==
    IF le = <<>> THEN <<>>
    ELSE LET cur == Head(le) * 64 + carry
         IN  <<cur % 256>> \o TimesPlus(Tail(le), cur \div 256)
RECURSIVE Decode(_, _)
Decode(str, le) ==
    IF str = <<>> THEN le
    ELSE Decode(Tail(str), TimesPlus(le, DigitOf(Head(str))))
ValueOf(str) == Decode(str, [k \in 1..(NumBytes + 1) |-> 0])

\* the two values of the call, least significant byte first
Int1 == SubSeq(new_eid.random_bytes, 1, NumBytes)
Int2 == SubSeq(new_eid.random_bytes, NumBytes + 1, 2 * NumBytes)
\* the place of the first underscore of the identifier
Underscore == CHOOSE k \in DOMAIN new_eid.eid :
                 new_eid.eid[k] = "_" /\ \A j \in 1..(k - 1) : new_eid.eid[j] # "_"
Part1 == SubSeq(new_eid.eid, 1, Underscore - 1)
Part2 == SubSeq(new_eid.eid, Underscore + 1, Len(new_eid.eid))
Rendering(str, le) ==
    /\ Len(str) \in 1..11
    /\ \A k \in DOMAIN str : str[k] \in Range(chars)
    /\ ValueOf(str) = le \o <<0>>
    /\ (str[1] = "A") => (str = <<"A">> /\ IsZero(le))
    /\ IsZero(le) => str = <<"A">>

\* C26: identifier encoding.  The identifier made of two values below 2^64 is
\* two strings joined by one underscore; each string has 1 to 11 characters
\* of the alphabet A-Z a-z 0-9 + /, is the base-64 numeral of its value with
\* the most significant digit first (it decodes back to the value), and
\* begins with the digit A only when the value is 0, whose string is "A".
C26_IdentifierEncoding ==
    new_eid.eid # <<>> =>
        /\ Cardinality({k \in DOMAIN new_eid.eid : new_eid.eid[k] = "_"}) = 1
        /\ Rendering(Part1, Int1)
        /\ Rendering(Part2, Int2)

\* the identifier of the values 2^64 - 1 and 0: eleven digits and the digit A
C26_Witness ==
    /\ new_eid.eid # <<>>
    /\ Int1 = [k \in 1..NumBytes |-> 255] /\ Int2 = [k \in 1..NumBytes |-> 0]
    /\ Len(Part1) = 11 /\ Part1[1] = "P"
    /\ Part2 = <<"A">>

\* the current values reported so far rise strictly and the total is the
\* number of input documents at every call
ProgressRises ==
    \A k \in DOMAIN progress :
        /\ progress[k][2] = Len(source_paths)
        /\ progress[k][1] <= progress[k][2]
        /\ k > 1 => progress[k - 1][1] < progress[k][1]
\* the call for the base comes after the base is copied and opened, the call
\* for a source after that source is merged
ProgressAfterProcessing ==
    /\ Len(progress) >= 1 => Loaded
    /\ Len(progress) <= 1 + i
\* a run that ended without an exception made one call for each input
\* document, the last with current = total
ProgressComplete ==
    (pc = "done" /\ err = NoError) =>
        /\ Len(progress) = Len(source_paths)
        /\ progress[Len(progress)][1] = Len(source_paths)

\* C27: progress reporting.  The callback is called once for each input
\* document and only after that document is fully processed; current rises
\* strictly, never exceeds total, which is the same at every call, and is
\* equal to total at the end of a successful run.
C27_ProgressReporting ==
    /\ ProgressRises
    /\ ProgressAfterProcessing
    /\ ProgressComplete

\* the window is in use and concatenate was called from it
RunFromGui == gui.files # <<>> /\ pc # "gui"

\* C28: the number strategy selected in the window (ignore, prefer or
\* match) is the strategy the fuzzy matcher is called with in the validation
\* of the run; with ignore or match selected no validation is done with prefer.
C28_StrategyPassedThrough ==
    (RunFromGui /\ opts.fuzzy_matching) =>
        StrategyConstant(opts.number_strategy) = Upper(gui.number_strategy_var)

\* C30: mutual exclusion of the break checkboxes.  After any clicks on
\* System, Page and Section, each write trace run to its end, System is not
\* selected together with Page or with Section (Page and Section may be), and
\* the break_type passed to concatenate is one of none, line, page, section
\* and page,section.
C30_BreakExclusion ==
    /\ ~(gui.break_system_var /\ (gui.break_page_var \/ gui.break_section_var))
    /\ RunFromGui => opts.break_type \in {"none", "line", "page", "section", "page,section"}

\* a run from the window with Page and Section selected together came to its end
C30_Witness ==
    /\ RunFromGui /\ pc = "done"
    /\ gui.break_page_var /\ gui.break_section_var /\ ~gui.break_system_var
    /\ opts.break_type = "page,section"

====
